---- MODULE Spec2Model ----
(***************************************************************************)
(* arenacheck (cmd/arenacheck/analyzer_final.go): the two passes of        *)
(* checkFunctionFinal2 over the SSA form of one function, the provenance   *)
(* resolver findAllocation and the use-after-free check.                   *)
(*                                                                         *)
(* A position is <<block index, instruction index>>; instr.Pos() and the   *)
(* allocPos string are modelled by the position of the instruction.        *)
(*                                                                         *)
(* An SSA value is named by the instruction (or global, parameter,         *)
(* constant, local slot) that defines it.  The instruction table below is  *)
(* the front-end's view of a function: kind, static callee, operands and   *)
(* static type.  A function is a sequence of blocks, a block a sequence    *)
(* of instruction names.                                                   *)
(***************************************************************************)
EXTENDS Naturals, Sequences, FiniteSets, TLC

\* ---------------------------------------------------------------- bounds
MaxInstrs == 4
MaxBlocks == 2

\* ------------------------------------------------------------- IR tables
NoCallee == "<nil>"

Ins(k, c, o, t) == [kind |-> k, callee |-> c, ops |-> o, type |-> t]

\* Values that are not instructions of the stream.
Leaf ==
  [ a0   |-> Ins("Parameter", NoCallee, <<>>, "ptr"),
    g    |-> Ins("Global",    NoCallee, <<>>, "ptr"),
    gi   |-> Ins("Global",    NoCallee, <<>>, "ptr"),
    s1   |-> Ins("Alloc",     NoCallee, <<>>, "ptr"),
    s2   |-> Ins("Alloc",     NoCallee, <<>>, "ptr"),
    s3   |-> Ins("Alloc",     NoCallee, <<>>, "ptr"),
    nil  |-> Ins("Const",     NoCallee, <<>>, "ptr"),
    i0   |-> Ins("Const",     NoCallee, <<>>, "basic") ]

\* Instructions.  ops: static Call and Defer -> arguments (the receiver
\* first), Call without static callee -> the called value, then the
\* arguments, Store -> <<Addr, Val>>, UnOp/FieldAddr/IndexAddr/MakeInterface
\* -> <<X>>, Phi -> Edges, Return -> Results.
Code ==
  [ cr1    |-> Ins("Call", "arena.NewArena",      <<>>,             "ptr"),
    cr2    |-> Ins("Call", "arena.NewArena",      <<>>,             "ptr"),
    al1    |-> Ins("Call", "arena.New[int]",      <<"cr1">>,        "ptr"),
    al2    |-> Ins("Call", "arena.New[int]",      <<"cr2">>,        "ptr"),
    alp    |-> Ins("Call", "arena.New[int]",      <<"a0">>,         "ptr"),
    fr1    |-> Ins("Call", "(*arena.Arena).Free", <<"cr1">>,        "none"),
    fr1b   |-> Ins("Call", "(*arena.Arena).Free", <<"cr1">>,        "none"),
    fr2    |-> Ins("Call", "(*arena.Arena).Free", <<"cr2">>,        "none"),
    frx    |-> Ins("Call", "pool.Free",           <<"cr1", "al1">>, "none"),
    df1    |-> Ins("Defer", "(*arena.Arena).Free", <<"cr1">>,       "none"),
    al0    |-> Ins("Call", "arena.New[int]",      <<>>,             "ptr"),
    fr0    |-> Ins("Call", "(*arena.Arena).Free", <<>>,             "none"),
    usephF |-> Ins("Call", "fmt.Println",         <<"phiF">>,       "none"),
    usephG |-> Ins("Call", "fmt.Println",         <<"phiG">>,       "none"),
    use12  |-> Ins("Call", "fmt.Println",         <<"al1", "al2">>, "none"),
    dyn    |-> Ins("Call", NoCallee,              <<"al1">>,        "ptr"),
    jmp1   |-> Ins("Jump",          NoCallee, <<>>,        "none"),
    jmp2   |-> Ins("Jump",          NoCallee, <<>>,        "none"),
    ld1    |-> Ins("UnOp",          NoCallee, <<"al1">>,   "basic"),
    ldp    |-> Ins("UnOp",          NoCallee, <<"alp">>,   "basic"),
    fa1    |-> Ins("FieldAddr",     NoCallee, <<"al1">>,   "ptr"),
    ldf    |-> Ins("UnOp",          NoCallee, <<"fa1">>,   "named_ptr"),
    ldx    |-> Ins("UnOp",          NoCallee, <<"fa1">>,   "basic"),
    ix1    |-> Ins("IndexAddr",     NoCallee, <<"al1">>,   "ptr"),
    mi1    |-> Ins("MakeInterface", NoCallee, <<"al1">>,   "iface"),
    ta1    |-> Ins("TypeAssert",    NoCallee, <<"mi1">>,   "ptr"),
    st1    |-> Ins("Store",  NoCallee, <<"s1", "al1">>,    "none"),
    st1n   |-> Ins("Store",  NoCallee, <<"s1", "nil">>,    "none"),
    lds1   |-> Ins("UnOp",   NoCallee, <<"s1">>,           "ptr"),
    st2    |-> Ins("Store",  NoCallee, <<"s2", "lds1">>,   "none"),
    lds2   |-> Ins("UnOp",   NoCallee, <<"s2">>,           "ptr"),
    st3    |-> Ins("Store",  NoCallee, <<"s3", "lds2">>,   "none"),
    lds3   |-> Ins("UnOp",   NoCallee, <<"s3">>,           "ptr"),
    sta    |-> Ins("Store",  NoCallee, <<"al1", "i0">>,    "none"),
    stf    |-> Ins("Store",  NoCallee, <<"fa1", "i0">>,    "none"),
    stfh   |-> Ins("Store",  NoCallee, <<"fa1", "a0">>,    "none"),
    ldi    |-> Ins("UnOp",   NoCallee, <<"ix1">>,          "ptr"),
    stgf   |-> Ins("Store",  NoCallee, <<"g", "ldf">>,     "none"),
    retf   |-> Ins("Return", NoCallee, <<"ldf">>,          "none"),
    reti   |-> Ins("Return", NoCallee, <<"ldi">>,          "none"),
    stg    |-> Ins("Store",  NoCallee, <<"g", "al1">>,     "none"),
    stgp   |-> Ins("Store",  NoCallee, <<"g", "alp">>,     "none"),
    stgi   |-> Ins("Store",  NoCallee, <<"gi", "ld1">>,    "none"),
    phiA   |-> Ins("Phi",    NoCallee, <<"nil", "al1">>,   "ptr"),
    phiB   |-> Ins("Phi",    NoCallee, <<"phiC", "nil">>,  "ptr"),
    phiC   |-> Ins("Phi",    NoCallee, <<"phiB", "phiC">>, "ptr"),
    phiD   |-> Ins("Phi",    NoCallee, <<"phiE", "phiE", "al1">>, "ptr"),
    phiE   |-> Ins("Phi",    NoCallee, <<"phiD", "nil">>,  "ptr"),
    phiF   |-> Ins("Phi",    NoCallee, <<"al2", "al1">>,   "ptr"),
    phiG   |-> Ins("Phi",    NoCallee, <<"al1", "al2">>,   "ptr"),
    retv   |-> Ins("Return", NoCallee, <<"al1">>,          "none"),
    retld  |-> Ins("Return", NoCallee, <<"ld1">>,          "none"),
    ret2   |-> Ins("Return", NoCallee, <<"ld1", "al1">>,   "none"),
    retx   |-> Ins("Return", NoCallee, <<"ldx">>,          "none"),
    rets1  |-> Ins("Return", NoCallee, <<"lds1">>,         "none"),
    rets2  |-> Ins("Return", NoCallee, <<"lds2">>,         "none"),
    rets3  |-> Ins("Return", NoCallee, <<"lds3">>,         "none"),
    retmi  |-> Ins("Return", NoCallee, <<"mi1">>,          "none"),
    retta  |-> Ins("Return", NoCallee, <<"ta1">>,          "none"),
    retphA |-> Ins("Return", NoCallee, <<"phiA">>,         "none"),
    retphB |-> Ins("Return", NoCallee, <<"phiB">>,         "none"),
    retphD |-> Ins("Return", NoCallee, <<"phiD">>,         "none"),
    retp   |-> Ins("Return", NoCallee, <<"alp">>,          "none"),
    ret0   |-> Ins("Return", NoCallee, <<>>,               "none"),
    retnil |-> Ins("Return", NoCallee, <<"nil">>,          "none") ]

Instrs == DOMAIN Code
Values == DOMAIN Code \cup DOMAIN Leaf

Tbl(v) == IF v \in DOMAIN Code THEN Code[v] ELSE Leaf[v]
Kind(v) == Tbl(v).kind
Ops(v) == Tbl(v).ops
TypeOf(v) == Tbl(v).type

Range(s) == {s[k] : k \in 1..Len(s)}

\* ------------------------------------------------ callee name patterns
\* strings.Contains(fullName, "arena.NewArena")
IsNewArenaName(n) == n \in {"arena.NewArena"}
\* strings.Contains(fullName, "arena.New[")
IsNewName(n) == n \in {"arena.New[int]"}
\* strings.Contains(fullName, ".Free") || callee.Name() == "Free"
IsFreeName(n) == n \in {"(*arena.Arena).Free", "pool.Free"}

\* ------------------------------------------------------------ types
Underlying(t) ==
  CASE t = "named_ptr" -> "ptr"
    [] t = "named_struct" -> "struct"
    [] OTHER -> t

\* Variant: no type filter (as in the first analyzer, analyzer.go:69-76).
isPointerTypeUnfiltered(t) == TRUE

RECURSIVE isPointerType(_)
isPointerType(t) ==
  CASE t = "ptr" -> TRUE
    [] t \in {"named_ptr", "named_struct"} -> isPointerType(Underlying(t))
    [] OTHER -> FALSE

\* Variant: the type test names the local slot instead of the global.
isGlobalVarLocal(val) == Kind(val) = "Alloc"

isGlobalVar(val) == Kind(val) = "Global"

\* --------------------------------------------------- provenance resolver
NoPos == <<0, 0>>
NoAlloc == [arena |-> "none", value |-> "none", allocPos |-> NoPos]

Res(a, vis, tr) == [alloc |-> a, visited |-> vis, trace |-> tr]

\* Variant: a member is a value of its own, not traced to its aggregate.
memberBaseOwn(val) == val

\* v.X of a FieldAddr or an IndexAddr: the aggregate the member belongs to
\* (analyzer_final.go:177-181).
memberBase(val) == Ops(val)[1]

\* findAllocationRec with the visited map threaded through the calls (the
\* Go map is shared by reference); trace records, in order, the values whose
\* body was entered (those that passed the visited test).
RECURSIVE findAllocationRec(_, _, _, _)
RECURSIVE PhiEdges(_, _, _, _, _)

\* Variant: every edge starts from the visited set the phi was entered with
\* (the map copied per edge instead of shared).
PhiEdgesCopied(edges, k, allocations, storesTo, acc) ==
  IF k > Len(edges) THEN Res(NoAlloc, acc.visited, acc.trace)
  ELSE LET r == findAllocationRec(edges[k], allocations, storesTo, acc.visited)
       IN  IF r.alloc # NoAlloc
           THEN Res(r.alloc, r.visited, acc.trace \o r.trace)
           ELSE PhiEdges(edges, k + 1, allocations, storesTo,
                         Res(NoAlloc, acc.visited, acc.trace \o r.trace))

\* Variant: the merge gives up at the first edge that was visited before.
PhiEdgesUntilVisited(edges, k, allocations, storesTo, acc) ==
  IF k > Len(edges) \/ edges[k] \in acc.visited THEN Res(NoAlloc, acc.visited, acc.trace)
  ELSE LET r == findAllocationRec(edges[k], allocations, storesTo, acc.visited)
       IN  IF r.alloc # NoAlloc
           THEN Res(r.alloc, r.visited, acc.trace \o r.trace)
           ELSE PhiEdges(edges, k + 1, allocations, storesTo,
                         Res(NoAlloc, r.visited, acc.trace \o r.trace))

\* Variant: the answer of the first edge is the answer of the phi.
PhiEdgesFirstOnly(edges, k, allocations, storesTo, acc) ==
  IF k > Len(edges) THEN Res(NoAlloc, acc.visited, acc.trace)
  ELSE LET r == findAllocationRec(edges[k], allocations, storesTo, acc.visited)
       IN  Res(r.alloc, r.visited, acc.trace \o r.trace)

PhiEdges(edges, k, allocations, storesTo, acc) ==
  IF k > Len(edges) THEN Res(NoAlloc, acc.visited, acc.trace)
  ELSE LET r == findAllocationRec(edges[k], allocations, storesTo, acc.visited)
       IN  IF r.alloc # NoAlloc
           THEN Res(r.alloc, r.visited, acc.trace \o r.trace)
           ELSE PhiEdges(edges, k + 1, allocations, storesTo,
                         Res(NoAlloc, r.visited, acc.trace \o r.trace))

\* Variant: a load is traced to its operand only, never to the value last
\* stored in the slot (tracesToArenaAlloc, analyzer.go:122-124).
findAllocationRecNoStores(val, allocations, storesTo, visited) ==
  IF val \in visited THEN Res(NoAlloc, visited, <<>>)
  ELSE
    LET vis == visited \cup {val}
        here == <<val>>
        Sub(x, vs) == findAllocationRec(x, allocations, storesTo, vs)
        Then(r) == Res(r.alloc, r.visited, here \o r.trace)
    IN
    IF val \in DOMAIN allocations THEN Res(allocations[val], vis, here)
    ELSE CASE Kind(val) \in {"UnOp", "FieldAddr", "IndexAddr", "MakeInterface"} ->
                Then(Sub(Ops(val)[1], vis))
           [] Kind(val) = "Phi" ->
                Then(PhiEdges(Ops(val), 1, allocations, storesTo,
                              Res(NoAlloc, vis, <<>>)))
           [] OTHER -> Res(NoAlloc, vis, here)

findAllocationRec(val, allocations, storesTo, visited) ==
  IF val \in visited THEN Res(NoAlloc, visited, <<>>)
  ELSE
    LET vis == visited \cup {val}
        here == <<val>>
        Sub(x, vs) == findAllocationRec(x, allocations, storesTo, vs)
        Then(r) == Res(r.alloc, r.visited, here \o r.trace)
    IN
    IF val \in DOMAIN allocations THEN Res(allocations[val], vis, here)
    ELSE CASE Kind(val) = "UnOp" ->
                LET operand == Ops(val)[1]
                    r1 == IF operand \in DOMAIN storesTo
                          THEN Sub(storesTo[operand], vis)
                          ELSE Res(NoAlloc, vis, <<>>)
                IN  IF r1.alloc # NoAlloc THEN Then(r1)
                    ELSE LET r2 == Sub(operand, r1.visited)
                         IN  Res(r2.alloc, r2.visited, here \o r1.trace \o r2.trace)
           [] Kind(val) \in {"FieldAddr", "IndexAddr"} ->
                Then(Sub(memberBase(val), vis))
           [] Kind(val) = "MakeInterface" ->
                Then(Sub(Ops(val)[1], vis))
           [] Kind(val) = "Phi" ->
                Then(PhiEdges(Ops(val), 1, allocations, storesTo,
                              Res(NoAlloc, vis, <<>>)))
           [] OTHER -> Res(NoAlloc, vis, here)

\* Variant: the value itself is not looked up, only what it derives from.
findAllocationDerivedOnly(val, allocations, storesTo) ==
  IF val \in DOMAIN allocations THEN NoAlloc
  ELSE findAllocationRec(val, allocations, storesTo, {}).alloc

findAllocation(val, allocations, storesTo) ==
  findAllocationRec(val, allocations, storesTo, {}).alloc

\* ------------------------------------------------------- diagnostics
Diag(k, p, a) == [kind |-> k, pos |-> p, allocPos |-> a.allocPos]

\* instr.Operands(nil).  The callee of a static call is a function constant,
\* which no case of the resolver traces; it is left out of ops.
Operands(instr) == Ops(instr)

\* checkUseAfterFree: the diagnostics (none or one) reported for instr at pos.
RECURSIVE checkOperands(_, _, _, _, _, _)

\* Variant: no return after the report, one diagnostic per offending operand.
checkOperandsEvery(operands, k, pos, allocations, freedArenas, storesTo) ==
  IF k > Len(operands) THEN <<>>
  ELSE LET alloc == findAllocation(operands[k], allocations, storesTo)
           rest == checkOperands(operands, k + 1, pos, allocations, freedArenas, storesTo)
       IN  IF alloc # NoAlloc /\ alloc.arena \in freedArenas
           THEN <<Diag("uaf", pos, alloc)>> \o rest
           ELSE rest

checkOperands(operands, k, pos, allocations, freedArenas, storesTo) ==
  IF k > Len(operands) THEN <<>>
  ELSE LET alloc == findAllocation(operands[k], allocations, storesTo)
       IN  IF alloc # NoAlloc /\ alloc.arena \in freedArenas
           THEN <<Diag("uaf", pos, alloc)>>
           ELSE checkOperands(operands, k + 1, pos, allocations, freedArenas, storesTo)

\* Variant: only the first operand is examined.
checkUseAfterFreeFirst(instr, pos, allocations, freedArenas, storesTo) ==
  IF Operands(instr) = <<>> THEN <<>>
  ELSE checkOperands(<<Operands(instr)[1]>>, 1, pos, allocations, freedArenas, storesTo)

checkUseAfterFree(instr, pos, allocations, freedArenas, storesTo) ==
  checkOperands(Operands(instr), 1, pos, allocations, freedArenas, storesTo)

\* The loop over ret.Results (analyzer_final.go:118-127).
RECURSIVE checkResults(_, _, _, _, _)
checkResults(results, k, pos, allocations, storesTo) ==
  IF k > Len(results) THEN <<>>
  ELSE LET alloc == findAllocation(results[k], allocations, storesTo)
           rest == checkResults(results, k + 1, pos, allocations, storesTo)
       IN  IF alloc # NoAlloc /\ isPointerType(TypeOf(results[k]))
           THEN <<Diag("return", pos, alloc)>> \o rest
           ELSE rest

checkReturn(instr, pos, allocations, storesTo) ==
  IF Kind(instr) = "Return"
  THEN checkResults(Ops(instr), 1, pos, allocations, storesTo)
  ELSE <<>>

\* The global-store check (analyzer_final.go:131-139).
checkGlobalStore(instr, pos, allocations, storesTo) ==
  IF Kind(instr) = "Store" /\ isGlobalVar(Ops(instr)[1])
  THEN LET alloc == findAllocation(Ops(instr)[2], allocations, storesTo)
       IN  IF alloc # NoAlloc THEN <<Diag("global", pos, alloc)>> ELSE <<>>
  ELSE <<>>

\* ------------------------------------------------ functions analysed
\* Every operand that is an instruction is defined earlier in the stream
\* (SSA: definitions dominate uses); the edges of a phi are exempt.
Defined(i, s) ==
  Kind(i) = "Phi" \/ \A k \in 1..Len(Ops(i)) : Ops(i)[k] \in Instrs => Ops(i)[k] \in Range(s)

Alphabet ==
  {"cr1", "al1", "fr1", "fr1b", "ld1", "st1", "st1n", "lds1", "stg", "stgi",
   "phiA", "retv", "retld", "rets1", "ret2", "retphA"}

\* The well-formed streams of at most n instructions, without repetition
\* (an SSA instruction occurs once).
RECURSIVE Streams(_)
Streams(n) ==
  IF n = 0 THEN {<<>>}
  ELSE LET prev == Streams(n - 1)
       IN  prev \cup UNION {{Append(s, i) : i \in {j \in Alphabet \ Range(s) : Defined(j, s)}} :
                             s \in {t \in prev : Len(t) = n - 1}}

\* The block boundaries of a stream: a set of cut positions (a block ends
\* after position c); a return ends its block.
Cuts(s) ==
  {C \in SUBSET (1..(Len(s) - 1)) :
     /\ Cardinality(C) + 1 <= MaxBlocks
     /\ \A k \in 1..(Len(s) - 1) : Kind(s[k]) = "Return" => k \in C}

RECURSIVE Split(_, _, _)
Split(s, C, from) ==
  IF from > Len(s) THEN <<>>
  ELSE LET ends == {c \in C : c >= from}
           to == IF ends = {} THEN Len(s)
                 ELSE CHOOSE c \in ends : \A d \in ends : c <= d
       IN  <<SubSeq(s, from, to)>> \o Split(s, C, to + 1)

Blocks(s) == {Split(s, C, 1) : C \in Cuts(s)}

Generated == UNION {Blocks(s) : s \in Streams(MaxInstrs) \ {<<>>}}

\* Longer functions: the patterns of testdata/comprehensive and their kin.
Scenarios ==
  { <<"cr1", "al1", "st1", "lds1", "st2", "lds2", "rets2">>,
    <<"cr1", "al1", "st1", "lds1", "st2", "lds2", "st3", "lds3", "rets3">>,
    <<"cr1", "df1", "al1", "retv">>,
    <<"cr1", "df1", "al1", "fa1", "ldx", "retx">>,
    <<"cr1", "al1", "fr1", "fa1", "ldx", "retx">>,
    <<"cr1", "cr2", "al1", "al2", "fr2", "use12">>,
    <<"cr1", "cr2", "al1", "al2", "fr1", "use12">>,
    <<"cr1", "cr2", "al1", "al2", "fr1", "fr2", "use12">>,
    <<"cr1", "al1", "phiB", "phiC", "retphB">>,
    <<"cr1", "al1", "phiD", "phiE", "retphD">>,
    <<"cr1", "al1", "sta", "fr1">>,
    <<"cr1", "al1", "mi1", "retmi">>,
    <<"cr1", "df1", "al1", "mi1", "retmi">>,
    <<"cr1", "al1", "dyn">>,
    <<"cr1", "df1", "al1", "fa1", "stf", "ldx", "retx">>,
    <<"cr1", "df1", "al1", "ld1", "ret0">>,
    <<"alp", "retp">>,
    <<"alp", "stgp">>,
    <<"cr1", "fr1", "alp", "ldp">>,
    <<"cr1", "al0", "fr0", "al1", "stg">>,
    <<"cr1", "al1", "frx">>,
    <<"cr1", "al1", "fa1", "stfh", "ldf", "retf">>,
    <<"cr1", "al1", "fa1", "ldf", "stgf">>,
    <<"cr1", "al1", "ix1", "ldi", "reti">>,
    <<"cr1", "al1", "st1", "lds1", "st1n", "rets1">>,
    <<"cr1", "al1", "st1n", "lds1", "rets1", "st1">>,
    <<"cr1", "al1", "mi1", "ta1", "retta">>,
    <<"cr1", "cr2", "al1", "al2", "phiF", "fr1", "usephF">>,
    <<"cr1", "cr2", "al1", "al2", "phiG", "fr1", "usephG">> }

\* conditionalEscape: the allocation is returned in one block, nil in another.
Branching ==
  { << <<"cr1", "al1">>, <<"retv">>, <<"retnil">> >> }

\* The order of fn.Blocks is not the dominance order: here the block that
\* creates the region follows, in fn.Blocks, the block that allocates.
Reordered ==
  { << <<"jmp1">>, <<"al1", "retv">>, <<"cr1", "jmp2">> >> }

Functions ==
  Generated \cup UNION {Blocks(s) : s \in Scenarios} \cup Branching \cup Reordered

\* ------------------------------------------------------------- state
VARIABLES fn, pc, bi, ii, arenas, allocations, storesTo, freeInstrs,
          freedArenas, diags

\* runFinal2: the functions of the package, the index of the one under
\* analysis, and what each analysed function left behind.
VARIABLES fns, fi, results

\* The position of a diagnostic lies in one function of the file set:
\* diagFunc[k] is the index, in the package, of the function of diags[k].
VARIABLE diagFunc

run == <<fns, fi, results>>

\* The runtime library (safearena.go): the counter of arena ids, the Arena
\* structs made by New, the Ptr and Slice handles made by Alloc and
\* AllocSlice, where each goroutine stands, and the outcome of the call
\* that completed last.
VARIABLES arenaCounter, arenaObjs, handles, gor, last

\* Sequential use of the library: the arenas of the Scoped calls in progress
\* and of those that have ended, the heap copies made by Clone, the state
\* of the optimized variant (part_009) driven by the same calls, and the
\* StringBuilder under test.
VARIABLES scopes, heap, opt, sb

ext == <<scopes, heap, opt, sb>>

rtv == <<arenaCounter, arenaObjs, handles, gor, last, ext>>

vars == <<fn, pc, bi, ii, arenas, allocations, storesTo, freeInstrs,
          freedArenas, diags, diagFunc, run, rtv>>

Goroutines == {"g1", "g2"}
Idle == [pc |-> "idle"]
NoCall == [op |-> "none"]

\* No goroutine has started, no arena exists.
InitRtv ==
  /\ arenaCounter = 0
  /\ arenaObjs = <<>>
  /\ handles = <<>>
  /\ gor = [g \in Goroutines |-> Idle]
  /\ last = NoCall
  /\ scopes = [open |-> <<>>, ended |-> {}, how |-> "none", leak |-> FALSE,
               term |-> [arena |-> 0]]
  /\ heap = <<>>
  /\ opt = [counter |-> 0, arenas |-> <<>>, handles |-> <<>>, heap |-> <<>>, last |-> NoCall]
  /\ sb = [made |-> FALSE]

Empty == [x \in {} |-> x]

Init ==
  /\ fn \in Functions
  /\ pc = "pass1"
  /\ bi = 1
  /\ ii = 1
  /\ arenas = {}
  /\ allocations = Empty
  /\ storesTo = Empty
  /\ freeInstrs = Empty
  /\ freedArenas = {}
  /\ diags = <<>>
  /\ diagFunc = <<>>
  /\ fns = <<>>
  /\ fi = 0
  /\ results = <<>>
  /\ InitRtv

Cur == fn[bi][ii]

\* Variant: a deferred call is taken for a call.
isStaticCallOrDefer(instr) ==
  Kind(instr) \in {"Call", "Defer"} /\ Tbl(instr).callee # NoCallee

\* instr.(*ssa.Call) with a static callee (analyzer_final.go:56-60).
isStaticCall(instr) == Kind(instr) = "Call" /\ Tbl(instr).callee # NoCallee

\* Variant: every allocate call is recorded, whatever its region operand
\* (analyzer.go:57-60).
regionTrackedAlways(args, tracked) == Len(args) > 0

\* len(call.Call.Args) > 0 and arenas[arenaArg] present (analyzer_final.go:70-72).
regionTracked(args, tracked) == Len(args) > 0 /\ args[1] \in tracked

\* Variant: the first value stored in a slot stays.
recordStoreFirst(m, addr, val) == m @@ (addr :> val)

\* storesTo[v.Addr] = v.Val (analyzer_final.go:94-97): the value of a later
\* store replaces the one recorded.
recordStore(m, addr, val) == (addr :> val) @@ m

\* First pass, one instruction (analyzer_final.go:54-99).
FirstPassStep ==
  /\ pc = "pass1"
  /\ LET instr == Cur
         isCall == isStaticCall(instr)
         name == Tbl(instr).callee
         args == Ops(instr)
         arenas1 == IF isCall /\ IsNewArenaName(name)
                    THEN arenas \cup {instr} ELSE arenas
     IN  /\ arenas' = arenas1
         /\ allocations' =
              IF isCall /\ IsNewName(name) /\ regionTracked(args, arenas1)
              THEN (instr :> [arena |-> args[1], value |-> instr,
                              allocPos |-> <<bi, ii>>]) @@ allocations
              ELSE allocations
         /\ freeInstrs' =
              IF isCall /\ IsFreeName(name) /\ Len(args) > 0 /\ args[1] \in arenas1
              THEN (instr :> args[1]) @@ freeInstrs
              ELSE freeInstrs
         /\ storesTo' =
              IF Kind(instr) = "Store"
              THEN recordStore(storesTo, Ops(instr)[1], Ops(instr)[2])
              ELSE storesTo
  /\ IF ii < Len(fn[bi]) THEN /\ ii' = ii + 1
                              /\ UNCHANGED <<bi, pc>>
     ELSE IF bi < Len(fn) THEN /\ bi' = bi + 1
                               /\ ii' = 1
                               /\ UNCHANGED pc
     ELSE /\ bi' = 1
          /\ ii' = 1
          /\ pc' = "enter"
  /\ UNCHANGED <<fn, freedArenas, diags, diagFunc, run, rtv>>

\* Variant: the released set is made once, before the loop over the blocks.
EnterBlockKeep ==
  /\ pc = "enter"
  /\ pc' = "pass2"
  /\ UNCHANGED <<fn, bi, ii, arenas, allocations, storesTo, freeInstrs,
                 freedArenas, diags, diagFunc, run, rtv>>

\* Second pass, block entry: freedArenas := make(...) (analyzer_final.go:102-103).
EnterBlock ==
  /\ pc = "enter"
  /\ freedArenas' = {}
  /\ pc' = "pass2"
  /\ UNCHANGED <<fn, bi, ii, arenas, allocations, storesTo, freeInstrs, diags,
                 diagFunc, run, rtv>>

\* Variant: the newest report goes to the front.
ReportfFront(sink, new) == new \o sink

\* pass.Reportf: the reports of an instruction are appended to the sink.
Reportf(sink, new) == sink \o new

\* Second pass, one instruction (analyzer_final.go:105-140).
SecondPassStep ==
  /\ pc = "pass2"
  /\ LET instr == Cur
         pos == <<bi, ii>>
         freed == IF instr \in DOMAIN freeInstrs
                  THEN freedArenas \cup {freeInstrs[instr]} ELSE freedArenas
         uaf == IF freed # {}
                THEN checkUseAfterFree(instr, pos, allocations, freed, storesTo)
                ELSE <<>>
         new == uaf \o checkReturn(instr, pos, allocations, storesTo)
                    \o checkGlobalStore(instr, pos, allocations, storesTo)
     IN  /\ freedArenas' = freed
         /\ diags' = Reportf(diags, new)
         /\ diagFunc' = Reportf(diagFunc, [k \in 1..Len(new) |-> fi])
  /\ IF ii < Len(fn[bi]) THEN /\ ii' = ii + 1
                              /\ UNCHANGED <<bi, pc>>
     ELSE IF bi < Len(fn) THEN /\ bi' = bi + 1
                               /\ ii' = 1
                               /\ pc' = "enter"
     ELSE /\ pc' = "done"
          /\ UNCHANGED <<bi, ii>>
  /\ UNCHANGED <<fn, arenas, allocations, storesTo, freeInstrs, run, rtv>>

Next == FirstPassStep \/ EnterBlock \/ SecondPassStep

Spec == Init /\ [][Next]_vars

\* ------------------------------------------------ runFinal2
MaxFuncs == 3

\* A function of ssaProg.SrcFuncs: nil, or a function with its blocks
\* (none for a function without a body).
Func(blocks) == [absent |-> FALSE, Blocks |-> blocks]
NilFunc == [absent |-> TRUE, Blocks |-> <<>>]

Units ==
  { NilFunc,
    Func(<<>>),
    Func(<< <<"cr1", "al1", "retv">> >>),
    Func(<< <<"cr1", "al1", "stg", "fr1", "retv">> >>),
    Func(<< <<"cr1", "al0", "fr0", "al1", "stg">> >>),
    Func(<< <<"alp", "retp">> >>) }
    \cup {Func(b) : b \in Branching \cup Reordered}

RECURSIVE SeqsUpTo(_, _)
SeqsUpTo(S, n) ==
  IF n = 0 THEN {<<>>}
  ELSE LET prev == SeqsUpTo(S, n - 1)
       IN  prev \cup UNION {{Append(q, x) : x \in S} : q \in {t \in prev : Len(t) = n - 1}}

InitRun ==
  /\ fns \in SeqsUpTo(Units, MaxFuncs) \ {<<>>}
  /\ fi = 1
  /\ pc = "loop"
  /\ fn = <<>>
  /\ bi = 1
  /\ ii = 1
  /\ arenas = {}
  /\ allocations = Empty
  /\ storesTo = Empty
  /\ freeInstrs = Empty
  /\ freedArenas = {}
  /\ diags = <<>>
  /\ diagFunc = <<>>
  /\ results = <<>>
  /\ InitRtv

\* Variant: no function is skipped.
skipNever(f) == FALSE

\* fn == nil || fn.Blocks == nil (analyzer_final.go:26).
skip(f) == f.absent \/ f.Blocks = <<>>

\* The entry of checkFunctionFinal2 (analyzer_final.go:45-54): the four maps
\* are made anew when keep is FALSE; fn.Blocks of a nil function is a nil
\* dereference, a function without blocks has nothing to range over.
Enter(f, keepArenas, keepRest) ==
  /\ arenas' = IF keepArenas THEN arenas ELSE {}
  /\ allocations' = IF keepRest THEN allocations ELSE Empty
  /\ storesTo' = IF keepRest THEN storesTo ELSE Empty
  /\ freeInstrs' = IF keepRest THEN freeInstrs ELSE Empty
  /\ freedArenas' = {}
  /\ bi' = 1
  /\ ii' = 1
  /\ IF f.absent THEN pc' = "fault" /\ fn' = <<>>
     ELSE IF f.Blocks = <<>> THEN pc' = "done" /\ fn' = <<>>
     ELSE pc' = "pass1" /\ fn' = f.Blocks
  /\ UNCHANGED <<fns, fi, results, diags, diagFunc, rtv>>

\* One turn of the loop over ssaProg.SrcFuncs with the maps handed on.
RunStep(keepArenas, keepRest) ==
  /\ pc = "loop"
  /\ IF fi > Len(fns)
     THEN /\ pc' = "end"
          /\ UNCHANGED <<fn, bi, ii, arenas, allocations, storesTo, freeInstrs,
                         freedArenas, diags, diagFunc, run, rtv>>
     ELSE IF skip(fns[fi])
     THEN /\ fi' = fi + 1
          /\ UNCHANGED <<fn, pc, bi, ii, arenas, allocations, storesTo, freeInstrs,
                         freedArenas, diags, diagFunc, fns, results, rtv>>
     ELSE Enter(fns[fi], keepArenas, keepRest)

\* Variant: the four maps are made once, before the loop.
RunLoopSharedMaps == RunStep(TRUE, TRUE)

\* Variant: the map of regions alone is made once, before the loop.
RunLoopSharedArenas == RunStep(TRUE, FALSE)

\* Variant: the maps of allocations, stores and releases are made once,
\* before the loop; the map of regions is made per function.
RunLoopSharedRest == RunStep(FALSE, TRUE)

\* The loop of runFinal2 (analyzer_final.go:25-30).
RunLoop == RunStep(FALSE, FALSE)

\* checkFunctionFinal2 returns to the loop (analyzer_final.go:29, 142); what
\* its maps held is kept for inspection.
FunctionReturn ==
  /\ pc = "done"
  /\ fi >= 1
  /\ results' = Append(results, [fi |-> fi, arenas |-> arenas, allocations |-> allocations])
  /\ fi' = fi + 1
  /\ pc' = "loop"
  /\ UNCHANGED <<fn, fns, bi, ii, arenas, allocations, storesTo, freeInstrs,
                 freedArenas, diags, diagFunc, rtv>>

NextRun == RunLoop \/ FirstPassStep \/ EnterBlock \/ SecondPassStep \/ FunctionReturn

SpecRun == InitRun /\ [][NextRun]_vars

\* ------------------------------------------------ the runtime library
MaxArenas == 1
MaxHandles == 2

\* The values a caller stores.
Vals == {41, 42}

\* The variables of the analyzer, which the library leaves alone.
analysis == <<fn, pc, bi, ii, arenas, allocations, storesTo, freeInstrs,
              freedArenas, diags, diagFunc, run>>

InitRt ==
  /\ InitRtv
  /\ fn = <<>>
  /\ pc = "runtime"
  /\ bi = 1
  /\ ii = 1
  /\ arenas = {}
  /\ allocations = Empty
  /\ storesTo = Empty
  /\ freeInstrs = Empty
  /\ freedArenas = {}
  /\ diags = <<>>
  /\ diagFunc = <<>>
  /\ fns = <<>>
  /\ fi = 0
  /\ results = <<>>

\* errorWithHint: "arena <id>: <errorType>", then the location and the hint.
errorWithHint(arenaID, errorType) == <<"arena", arenaID, errorType>>

Panic(msg) == [panic |-> TRUE, val |-> msg]
Return(v) == [panic |-> FALSE, val |-> v]

\* Variant: the flag is never seen set.
LoadNever(a) == FALSE

\* a.freed.Load()
Load(a) == arenaObjs[a].freed

\* Variant: the swap always succeeds.
CompareAndSwapBlind(a) == TRUE

\* a.freed.CompareAndSwap(false, true): whether the swap succeeds.
CompareAndSwap(a) == ~arenaObjs[a].freed

\* What the call that completes leaves in last: the operation, its arena
\* and handle, its outcome, whether a Free of the arena had returned when
\* the call read the flag, and whether a Free of the arena had been called
\* when the call completed.
Call(op, a, h, out, after) ==
  [op |-> op, arena |-> a, handle |-> h, out |-> out, after |-> after,
   called |-> arenaObjs[a].called]

\* New (safearena.go:206-211).
New(g) ==
  /\ gor[g] = Idle
  /\ arenaCounter' = arenaCounter + 1
  /\ arenaObjs' = Append(arenaObjs, [id |-> arenaCounter + 1, freed |-> FALSE,
                                     inner |-> 0, called |-> FALSE])
  /\ last' = [op |-> "New", arena |-> Len(arenaObjs) + 1, handle |-> 0,
              out |-> Return(Len(arenaObjs) + 1), after |-> FALSE, called |-> FALSE]
  /\ UNCHANGED <<handles, gor, analysis>>

\* Variant: the flag is not looked at before allocating.
AllocCheckBlind(g, a, kind, v) ==
  /\ gor[g] = Idle
  /\ Len(handles) + Cardinality({x \in Goroutines : gor[x].pc = "alloc"}) < MaxHandles
  /\ gor' = [gor EXCEPT ![g] = [pc |-> "alloc", op |-> kind, arena |-> a, value |-> v,
                                after |-> arenaObjs[a].inner > 0]]
  /\ UNCHANGED <<arenaCounter, arenaObjs, handles, last, analysis>>

\* Alloc and AllocSlice, the check of the flag (safearena.go:215-218, 287-290).
AllocCheck(g, a, kind, v) ==
  /\ gor[g] = Idle
  /\ Len(handles) + Cardinality({x \in Goroutines : gor[x].pc = "alloc"}) < MaxHandles
  /\ IF Load(a)
     THEN /\ last' = Call(kind, a, 0, Panic(errorWithHint(arenaObjs[a].id, "allocation after free")),
                          arenaObjs[a].inner > 0)
          /\ UNCHANGED gor
     ELSE /\ gor' = [gor EXCEPT ![g] = [pc |-> "alloc", op |-> kind, arena |-> a, value |-> v,
                                        after |-> arenaObjs[a].inner > 0]]
          /\ UNCHANGED last
  /\ UNCHANGED <<arenaCounter, arenaObjs, handles, analysis>>

\* Alloc and AllocSlice, the allocation and the handle returned
\* (safearena.go:220-228, 292-298); late tells whether a Free of the arena
\* had returned when the call read the flag.
AllocReturn(g) ==
  /\ gor[g].pc = "alloc"
  /\ LET h == [kind |-> gor[g].op, ptr |-> Len(handles) + 1, value |-> gor[g].value,
               arena |-> gor[g].arena, late |-> gor[g].after]
     IN  \/ /\ handles' = Append(handles, h)
            /\ last' = Call(gor[g].op, gor[g].arena, Len(handles) + 1, Return(Len(handles) + 1),
                            gor[g].after)
         \/ \* arena.New on an inner arena released since the flag was read
            /\ gor[g].op = "Ptr" /\ arenaObjs[gor[g].arena].inner > 0
            /\ last' = Call("Ptr", gor[g].arena, 0, Panic(<<"fault">>), gor[g].after)
            /\ UNCHANGED handles
  /\ gor' = [gor EXCEPT ![g] = Idle]
  /\ UNCHANGED <<arenaCounter, arenaObjs, analysis>>

\* Ptr.Get, Ptr.Deref and Clone (through Get) and Slice.Get: the check of the flag
\* (safearena.go:233-236, 302-305).
GetCheck(g, h, op) ==
  /\ gor[g] = Idle
  /\ op \in (IF handles[h].kind = "Ptr" THEN {"Get", "Deref", "Clone"} ELSE {"SliceGet"})
  /\ LET a == handles[h].arena
     IN  IF Load(a)
         THEN /\ last' = Call(op, a, h, Panic(errorWithHint(arenaObjs[a].id, "use after free")),
                              arenaObjs[a].inner > 0)
              /\ UNCHANGED gor
         ELSE /\ gor' = [gor EXCEPT ![g] = [pc |-> "get", op |-> op, arena |-> a, handle |-> h,
                                            after |-> arenaObjs[a].inner > 0]]
              /\ UNCHANGED last
  /\ UNCHANGED <<arenaCounter, arenaObjs, handles, analysis>>

\* Ptr.Get and Slice.Get return the pointer or the slice they hold
\* (safearena.go:237, 306); Deref reads through the pointer (242), which is
\* a read of released memory when the inner arena was freed meanwhile.
GetReturn(g) ==
  /\ gor[g].pc = "get"
  /\ gor[g].op # "Clone"
  /\ LET h == gor[g].handle
         a == gor[g].arena
     IN  IF gor[g].op # "Deref"
         THEN last' = Call(gor[g].op, a, h, Return(handles[h].ptr), gor[g].after)
         ELSE IF arenaObjs[a].inner = 0
         THEN last' = Call("Deref", a, h, Return(handles[h].value), gor[g].after)
         ELSE \/ \E v \in Vals : last' = Call("Deref", a, h, Return(v), gor[g].after)
              \/ last' = Call("Deref", a, h, Panic(<<"fault">>), gor[g].after)
  /\ gor' = [gor EXCEPT ![g] = Idle]
  /\ UNCHANGED <<arenaCounter, arenaObjs, handles, analysis>>

\* Variant: the flag is shared by all arenas.
FreeStepShared(g, a) ==
  IF CompareAndSwap(a)
  THEN /\ arenaObjs' = [b \in 1..Len(arenaObjs) |->
                         [arenaObjs[b] EXCEPT !.freed = TRUE, !.called = @ \/ b = a]]
       /\ gor' = [gor EXCEPT ![g] = [pc |-> "free", arena |-> a,
                                     first |-> ~arenaObjs[a].called]]
       /\ UNCHANGED last
  ELSE /\ last' = [op |-> "Free", arena |-> a, handle |-> 0,
                   out |-> Panic(errorWithHint(arenaObjs[a].id, "double free")),
                   after |-> arenaObjs[a].inner > 0, called |-> TRUE,
                   first |-> ~arenaObjs[a].called]
       /\ arenaObjs' = [arenaObjs EXCEPT ![a].called = TRUE]
       /\ UNCHANGED gor

\* Variant: the flag is read first and written in a later step, which
\* another goroutine's read may precede.
FreeStepTorn(g, a) ==
  IF ~arenaObjs[a].freed
  THEN /\ arenaObjs' = [arenaObjs EXCEPT ![a].called = TRUE]
       /\ gor' = [gor EXCEPT ![g] = [pc |-> "free", arena |-> a,
                                     first |-> ~arenaObjs[a].called]]
       /\ UNCHANGED last
  ELSE /\ last' = [op |-> "Free", arena |-> a, handle |-> 0,
                   out |-> Panic(errorWithHint(arenaObjs[a].id, "double free")),
                   after |-> arenaObjs[a].inner > 0, called |-> TRUE,
                   first |-> ~arenaObjs[a].called]
       /\ arenaObjs' = [arenaObjs EXCEPT ![a].called = TRUE]
       /\ UNCHANGED gor

\* The first statement of Arena.Free: the swap of the flag, one atomic
\* step, and the panic when it fails (safearena.go:248-251).
FreeStep(g, a) ==
  IF CompareAndSwap(a)
  THEN /\ arenaObjs' = [arenaObjs EXCEPT ![a].freed = TRUE, ![a].called = TRUE]
       /\ gor' = [gor EXCEPT ![g] = [pc |-> "free", arena |-> a,
                                     first |-> ~arenaObjs[a].called]]
       /\ UNCHANGED last
  ELSE /\ last' = [op |-> "Free", arena |-> a, handle |-> 0,
                   out |-> Panic(errorWithHint(arenaObjs[a].id, "double free")),
                   after |-> arenaObjs[a].inner > 0, called |-> TRUE,
                   first |-> ~arenaObjs[a].called]
       /\ arenaObjs' = [arenaObjs EXCEPT ![a].called = TRUE]
       /\ UNCHANGED gor

\* Arena.Free, called by a goroutine (safearena.go:247-251).
Free(g, a) ==
  /\ gor[g] = Idle
  /\ FreeStep(g, a)
  /\ UNCHANGED <<arenaCounter, handles, analysis>>

\* Variant: the release puts the arena back into use and clears the flag.
InnerFreeReset(g) ==
  /\ gor[g].pc = "free"
  /\ arenaObjs' = [arenaObjs EXCEPT ![gor[g].arena].inner = @ + 1,
                                    ![gor[g].arena].freed = FALSE]
  /\ last' = [op |-> "Free", arena |-> gor[g].arena, handle |-> 0, out |-> Return("ok"),
              after |-> arenaObjs[gor[g].arena].inner > 0, called |-> TRUE,
              first |-> gor[g].first]
  /\ gor' = [gor EXCEPT ![g] = Idle]
  /\ UNCHANGED <<arenaCounter, handles, analysis>>

\* Arena.Free, the release of the inner arena (safearena.go:252).
InnerFree(g) ==
  /\ gor[g].pc = "free"
  /\ arenaObjs' = [arenaObjs EXCEPT ![gor[g].arena].inner = @ + 1]
  /\ last' = [op |-> "Free", arena |-> gor[g].arena, handle |-> 0, out |-> Return("ok"),
              after |-> arenaObjs[gor[g].arena].inner > 0, called |-> TRUE,
              first |-> gor[g].first]
  /\ gor' = [gor EXCEPT ![g] = Idle]
  /\ UNCHANGED <<arenaCounter, handles, analysis>>

NextRt ==
  \E g \in Goroutines :
    \/ arenaCounter < MaxArenas /\ New(g) /\ UNCHANGED ext
    \/ \E a \in 1..Len(arenaObjs), kind \in {"Ptr", "Slice"}, v \in Vals :
         AllocCheck(g, a, kind, v) /\ UNCHANGED ext
    \/ AllocReturn(g) /\ UNCHANGED ext
    \/ \E h \in 1..Len(handles), op \in {"Get", "Deref", "SliceGet"} :
         GetCheck(g, h, op) /\ UNCHANGED ext
    \/ GetReturn(g) /\ UNCHANGED ext
    \/ \E a \in 1..Len(arenaObjs) : Free(g, a) /\ UNCHANGED ext
    \/ InnerFree(g) /\ UNCHANGED ext

SpecRt == InitRt /\ [][NextRt]_vars

\* ------------------------------------------------ sequential use
MaxSeqArenas == 2

\* One goroutine makes every call; the optimized variant gets the same calls.
InitSeq == InitRt

\* fmt.Sprintf("arena %d: <what>", a.id) (part_009:41, 59, 72).
Sprintf(arenaID, what) == <<"arena", arenaID, what>>

\* NewOpt (part_009:30-35).
NewOpt(o) ==
  [o EXCEPT !.counter = @ + 1,
            !.arenas = Append(@, [id |-> o.counter + 1, freed |-> FALSE, inner |-> 0]),
            !.last = [op |-> "New", out |-> Return(Len(o.arenas) + 1)]]

\* AllocOpt and AllocSliceOpt (part_009:38-53, 98-109).
AllocOpt(o, a, kind, v) ==
  IF o.arenas[a].freed
  THEN [o EXCEPT !.last = [op |-> kind,
                           out |-> Panic(Sprintf(o.arenas[a].id, "allocation after free"))]]
  ELSE [o EXCEPT !.handles = Append(@, [kind |-> kind, ptr |-> Len(o.handles) + 1,
                                        value |-> v, arena |-> a]),
                 !.last = [op |-> kind, out |-> Return(Len(o.handles) + 1)]]

\* Variant: the handle is read without the check, as SliceOpt.UnsafeGet does.
UnsafeGet(o, h, op) ==
  [o EXCEPT !.last = [op |-> op, out |-> Return(o.handles[h].ptr)]]

\* PtrOpt.Get, PtrOpt.Deref, SliceOpt.Get and CloneOpt (part_009:56-67,
\* 112-118, 85-90): the check, then the pointer, the value behind it, the
\* slice, or a heap copy of the value.
GetOpt(o, h, op) ==
  LET hd == o.handles[h]
  IN  IF o.arenas[hd.arena].freed
      THEN [o EXCEPT !.last = [op |-> op,
                               out |-> Panic(Sprintf(o.arenas[hd.arena].id, "use after free"))]]
      ELSE CASE op = "Deref" -> [o EXCEPT !.last = [op |-> op, out |-> Return(hd.value)]]
             [] op = "Clone" -> [o EXCEPT !.heap = <<hd.value>>,
                                          !.last = [op |-> op, out |-> Return(1)]]
             [] OTHER -> [o EXCEPT !.last = [op |-> op, out |-> Return(hd.ptr)]]

\* ArenaOpt.Free (part_009:70-75).
FreeOpt(o, a) ==
  IF o.arenas[a].freed
  THEN [o EXCEPT !.last = [op |-> "Free", out |-> Panic(Sprintf(o.arenas[a].id, "double free"))]]
  ELSE [o EXCEPT !.arenas[a].freed = TRUE, !.arenas[a].inner = @ + 1,
                 !.last = [op |-> "Free", out |-> Return("ok")]]

\* Reading the copy CloneOpt returned: heap memory.
ReadCopyOpt(o, k) == [o EXCEPT !.last = [op |-> "ReadCopy", out |-> Return(o.heap[k])]]

\* Variant: the copy is made in the arena of the pointer.
cloneHomeArena(a) == a

\* heapCopy := new(T) (safearena.go:275): the copy lives on the heap, in no
\* arena.
cloneHome(a) == 0

\* Clone, after Deref has passed the check: the value is read and copied
\* (safearena.go:274-277). heap holds the copy the caller has kept, the
\* latest one.
CloneReturn(g) ==
  /\ gor[g].pc = "get"
  /\ gor[g].op = "Clone"
  /\ LET h == gor[g].handle
         a == gor[g].arena
         Copy(v) == /\ heap' = <<[value |-> v, home |-> cloneHome(a), from |-> h,
                                   late |-> gor[g].after]>>
                    /\ last' = Call("Clone", a, h, Return(1), gor[g].after)
     IN  IF arenaObjs[a].inner = 0
         THEN Copy(handles[h].value)
         ELSE \/ \E v \in Vals : Copy(v)
              \/ last' = Call("Clone", a, h, Panic(<<"fault">>), gor[g].after) /\ UNCHANGED heap
  /\ gor' = [gor EXCEPT ![g] = Idle]
  /\ UNCHANGED <<arenaCounter, arenaObjs, handles, analysis>>

\* The caller reads through the pointer Clone returned.
ReadCopy(g, k) ==
  /\ gor[g] = Idle
  /\ LET c == heap[k]
         Read(out) == last' = [op |-> "ReadCopy", arena |-> handles[c.from].arena,
                               handle |-> c.from, copy |-> k, out |-> out]
     IN  IF c.home = 0 \/ arenaObjs[c.home].inner = 0
         THEN Read(Return(c.value))
         ELSE \/ \E v \in Vals : Read(Return(v))
              \/ Read(Panic(<<"fault">>))
  /\ UNCHANGED <<arenaCounter, arenaObjs, handles, gor, heap, analysis>>

\* Alloc(a, v) stores v; AllocSlice makes a slice of zero elements.
SeqAllocs == {<<"Ptr", v>> : v \in Vals} \cup {<<"Slice", 0>>}

NextSeq ==
  \/ /\ arenaCounter < MaxSeqArenas
     /\ New("g1") /\ opt' = NewOpt(opt) /\ UNCHANGED <<scopes, heap, sb>>
  \/ \E a \in 1..Len(arenaObjs), kv \in SeqAllocs :
       AllocCheck("g1", a, kv[1], kv[2]) /\ opt' = AllocOpt(opt, a, kv[1], kv[2])
       /\ UNCHANGED <<scopes, heap, sb>>
  \/ AllocReturn("g1") /\ UNCHANGED ext
  \/ \E h \in 1..Len(handles), op \in {"Get", "Deref", "SliceGet", "Clone"} :
       /\ GetCheck("g1", h, op) /\ opt' = GetOpt(opt, h, op)
       /\ UNCHANGED <<scopes, heap, sb>>
  \/ GetReturn("g1") /\ UNCHANGED ext
  \/ CloneReturn("g1") /\ UNCHANGED <<scopes, opt, sb>>
  \/ \E k \in 1..Len(heap) :
       ReadCopy("g1", k) /\ opt' = ReadCopyOpt(opt, k) /\ UNCHANGED <<scopes, sb>>
  \/ \E a \in 1..Len(arenaObjs) :
       Free("g1", a) /\ opt' = FreeOpt(opt, a) /\ UNCHANGED <<scopes, heap, sb>>
  \/ InnerFree("g1") /\ UNCHANGED ext

SpecSeq == InitSeq /\ [][NextSeq]_vars

\* ------------------------------------------------ Scoped
\* Scoped and ScopedPtr, up to the call of the callback: a fresh arena, whose
\* Free is deferred (safearena.go:258-259, 266-267).
ScopedEnter(g) ==
  /\ New(g)
  /\ scopes' = [scopes EXCEPT !.open = Append(@, Len(arenaObjs) + 1)]

\* Variant: the callback ends and the arena is left as it is.
ScopedReturnNoFree(g, how) ==
  /\ gor[g] = Idle
  /\ scopes.open # <<>>
  /\ scopes' = [scopes EXCEPT !.open = SubSeq(@, 1, Len(@) - 1),
                              !.ended = @ \cup {scopes.open[Len(scopes.open)]}]
  /\ UNCHANGED <<arenaCounter, arenaObjs, handles, gor, last, analysis>>

\* Variant: a deferred Free that finds the arena freed does nothing.
scopedOutLenient(a, how) ==
  IF how = "return" THEN Return("result") ELSE Panic(<<"callback">>)

\* How Scoped terminates (safearena.go:259-260): by the panic of the
\* deferred a.Free() when its swap fails, else with the result of fn or
\* with the panic fn let through.
scopedOut(a, how) ==
  IF ~CompareAndSwap(a) THEN Panic(errorWithHint(arenaObjs[a].id, "double free"))
  ELSE IF how = "return" THEN Return("result")
  ELSE Panic(<<"callback">>)

\* The callback of the innermost Scoped ends, by a return or by a panic that
\* it lets through, and the deferred a.Free() starts (safearena.go:259-260,
\* 267-268). term keeps, of the Scoped that ended last, the arena, whether
\* Free had been called on it before the callback ended, and how the Scoped
\* terminates.
ScopedReturn(g, how) ==
  /\ gor[g] = Idle
  /\ scopes.open # <<>>
  /\ LET a == scopes.open[Len(scopes.open)]
     IN  /\ scopes' = [scopes EXCEPT !.open = SubSeq(@, 1, Len(@) - 1),
                                     !.ended = @ \cup {a},
                                     !.how = how,
                                     !.term = [arena |-> a, self |-> arenaObjs[a].called,
                                               out |-> scopedOut(a, how)]]
         /\ FreeStep(g, a)
  /\ UNCHANGED <<arenaCounter, handles, analysis>>

InitScoped == InitRt

\* What the callbacks allocate.
ScopedAllocs == {<<"Ptr", 41>>, <<"Slice", 0>>}

\* One caller: arenas made by Scoped, nested or one after the other; the
\* callbacks, and the caller with what leaked out of them, allocate, read
\* and free in any arena. leak tells whether the handle of the latest Get
\* belongs to a Scoped that has terminated.
NextScoped ==
  \/ /\ arenaCounter < MaxSeqArenas
     /\ ScopedEnter("g1") /\ UNCHANGED <<heap, opt, sb>>
  \/ \E a \in 1..Len(arenaObjs), kv \in ScopedAllocs :
       AllocCheck("g1", a, kv[1], kv[2]) /\ UNCHANGED ext
  \/ AllocReturn("g1") /\ UNCHANGED ext
  \/ \E h \in 1..Len(handles), op \in {"Get", "Deref", "SliceGet"} :
       /\ GetCheck("g1", h, op)
       /\ scopes' = [scopes EXCEPT !.leak = handles[h].arena \in scopes.ended]
       /\ UNCHANGED <<heap, opt, sb>>
  \/ GetReturn("g1") /\ UNCHANGED ext
  \/ \E a \in 1..Len(arenaObjs) : Free("g1", a) /\ UNCHANGED ext
  \/ InnerFree("g1") /\ UNCHANGED ext
  \/ \E how \in {"return", "panic"} :
       ScopedReturn("g1", how) /\ UNCHANGED <<heap, opt, sb>>

SpecScoped == InitScoped /\ [][NextScoped]_vars

\* ------------------------------------------------ StringBuilder
MaxCap == 3
MaxStrLen == 2
MaxAppends == 2

Bytes == {"a", "b"}
Nul == "nul"

\* The strings appended: byte sequences, the empty one included.
Strs == UNION {[1..n -> Bytes] : n \in 0..MaxStrLen}

Min(x, y) == IF x < y THEN x ELSE y

\* Variant: the bytes are copied to the start of the buffer.
copyFront(dst, off, s) ==
  [i \in 1..Len(dst) |-> IF i <= Min(Len(dst), Len(s)) THEN s[i] ELSE dst[i]]

\* copy(buf[off:], s): as many bytes of s as fit behind the offset
\* (safearena.go:324).
copy(dst, off, s) ==
  [i \in 1..Len(dst) |->
     IF off < i /\ i <= off + Min(Len(dst) - off, Len(s)) THEN s[i - off] ELSE dst[i]]

\* NewStringBuilder: a zeroed buffer of capacity bytes and length 0, in the
\* arena (safearena.go:315-320; AllocSlice 286-299, Alloc 214-229). want is
\* what has been appended since, in call order, and n the number of Appends.
NewStringBuilder(g, a, capacity) ==
  /\ gor[g] = Idle
  /\ ~sb.made
  /\ IF Load(a)
     THEN /\ last' = Call("NewStringBuilder", a, 0,
                          Panic(errorWithHint(arenaObjs[a].id, "allocation after free")),
                          arenaObjs[a].inner > 0)
          /\ UNCHANGED sb
     ELSE /\ last' = Call("NewStringBuilder", a, 0, Return(<<>>), FALSE)
          /\ sb' = [made |-> TRUE, arena |-> a, buffers |-> [i \in 1..capacity |-> Nul],
                    length |-> 0, want |-> <<>>, n |-> 0]
  /\ UNCHANGED <<arenaCounter, arenaObjs, handles, gor, analysis>>

\* StringBuilder.Append (safearena.go:322-326): the buffer through
\* Slice.Get, the copy behind the bytes already there, the new length.
SbAppend(g, s) ==
  /\ gor[g] = Idle
  /\ sb.made
  /\ LET a == sb.arena
     IN  IF Load(a)
         THEN /\ last' = Call("Append", a, 0,
                              Panic(errorWithHint(arenaObjs[a].id, "use after free")),
                              arenaObjs[a].inner > 0)
              /\ UNCHANGED sb
         ELSE IF sb.length > Len(sb.buffers)
         THEN /\ last' = Call("Append", a, 0, Panic(<<"slice bounds out of range">>), FALSE)
              /\ UNCHANGED sb
         ELSE /\ last' = Call("Append", a, 0, Return(<<>>), FALSE)
              /\ sb' = [sb EXCEPT !.buffers = copy(sb.buffers, sb.length, s),
                                  !.length = @ + Len(s),
                                  !.want = @ \o s,
                                  !.n = @ + 1]
  /\ UNCHANGED <<arenaCounter, arenaObjs, handles, gor, analysis>>

\* StringBuilder.String (safearena.go:328-331): the first length bytes of
\* the buffer.
SbString(g) ==
  /\ gor[g] = Idle
  /\ sb.made
  /\ LET a == sb.arena
     IN  last' = Call("String", a, 0,
                      IF Load(a)
                      THEN Panic(errorWithHint(arenaObjs[a].id, "use after free"))
                      ELSE IF sb.length > Len(sb.buffers)
                      THEN Panic(<<"slice bounds out of range">>)
                      ELSE Return(SubSeq(sb.buffers, 1, sb.length)),
                      arenaObjs[a].inner > 0)
  /\ UNCHANGED <<arenaCounter, arenaObjs, handles, gor, sb, analysis>>

InitSb == InitRt

\* One caller makes an arena, a StringBuilder in it, appends, reads the
\* string, and frees the arena at any point.
NextSb ==
  \/ /\ arenaCounter < MaxArenas
     /\ New("g1") /\ UNCHANGED ext
  \/ \E a \in 1..Len(arenaObjs), c \in 0..MaxCap :
       NewStringBuilder("g1", a, c) /\ UNCHANGED <<scopes, heap, opt>>
  \/ \E s \in Strs :
       /\ sb.made /\ sb.n < MaxAppends
       /\ SbAppend("g1", s) /\ UNCHANGED <<scopes, heap, opt>>
  \/ SbString("g1") /\ UNCHANGED <<scopes, heap, opt>>
  \/ \E a \in 1..Len(arenaObjs) : Free("g1", a) /\ UNCHANGED ext
  \/ InnerFree("g1") /\ UNCHANGED ext

SpecSb == InitSb /\ [][NextSb]_vars

\* ----------------------------------------------- reading the function
Done == pc = "done"

Positions == UNION {{<<b, k>> : k \in 1..Len(fn[b])} : b \in 1..Len(fn)}
At(p) == fn[p[1]][p[2]]
Before(p, q) == p[1] < q[1] \/ (p[1] = q[1] /\ p[2] < q[2])
Has(i) == \E p \in Positions : At(p) = i
PosOf(i) == CHOOSE p \in Positions : At(p) = i

RECURSIVE Flat(_)
Flat(blocks) == IF blocks = <<>> THEN <<>> ELSE Head(blocks) \o Flat(Tail(blocks))

DiagsAt(kind, p) == SelectSeq(diags, LAMBDA d : d.kind = kind /\ d.pos = p)
DiagsOf(kind) == SelectSeq(diags, LAMBDA d : d.kind = kind)

\* As the source program reads, independently of the analyzer's maps:
\* a region creation, an allocation into a region created earlier, a release
\* of a region created earlier.
IsCreate(i) == Kind(i) = "Call" /\ IsNewArenaName(Tbl(i).callee)
IsAllocate(i) ==
  /\ Kind(i) = "Call" /\ IsNewName(Tbl(i).callee) /\ Has(i)
  /\ Len(Ops(i)) > 0 /\ IsCreate(Ops(i)[1]) /\ Has(Ops(i)[1])
  /\ Before(PosOf(Ops(i)[1]), PosOf(i))
IsRelease(i) ==
  /\ Kind(i) = "Call" /\ IsFreeName(Tbl(i).callee) /\ Has(i)
  /\ Len(Ops(i)) > 0 /\ IsCreate(Ops(i)[1]) /\ Has(Ops(i)[1])
  /\ Before(PosOf(Ops(i)[1]), PosOf(i))
RegionOf(i) == Ops(i)[1]

PointerTypes == {"ptr", "named_ptr"}

\* ------------------------------------------------------------- claims

\* C1. Direct return: a return whose single result is a pointer-typed
\* allocation into a region created in the function yields exactly one
\* escape-via-return diagnostic at the return, citing the allocate site;
\* for `r = create; v = allocate(r); return v` it is the only diagnostic.
C1_DirectReturn ==
  Done =>
    /\ \A p \in Positions :
         LET ret == At(p) IN
         (/\ Kind(ret) = "Return" /\ Len(Ops(ret)) = 1
          /\ IsAllocate(Ops(ret)[1]) /\ TypeOf(Ops(ret)[1]) \in PointerTypes)
         => DiagsAt("return", p) =
              <<[kind |-> "return", pos |-> p, allocPos |-> PosOf(Ops(ret)[1])]>>
    /\ Flat(fn) = <<"cr1", "al1", "retv">> =>
         diags = <<[kind |-> "return", pos |-> PosOf("retv"), allocPos |-> PosOf("al1")]>>

C1_Witness ==
  /\ Done /\ fn = << <<"cr1", "al1", "retv">> >>
  /\ diags = <<[kind |-> "return", pos |-> <<1, 3>>, allocPos |-> <<1, 2>>]>>

\* The slot's last store in stream order, and the allocation a load reaches
\* through last stores alone.
StoresOf(slot) ==
  {p \in Positions : Kind(At(p)) = "Store" /\ Ops(At(p))[1] = slot}
LastStoreOf(slot) ==
  CHOOSE p \in StoresOf(slot) : \A q \in StoresOf(slot) : q = p \/ Before(q, p)

RECURSIVE ChainAlloc(_, _)
ChainAlloc(x, seen) ==
  IF x \in seen THEN "none"
  ELSE IF IsAllocate(x) THEN x
  ELSE IF Kind(x) = "UnOp" /\ Kind(Ops(x)[1]) = "Alloc" /\ StoresOf(Ops(x)[1]) # {}
       THEN ChainAlloc(Ops(At(LastStoreOf(Ops(x)[1])))[2], seen \cup {x})
       ELSE "none"

\* C2. Indirect return via locals: a return whose single result is a
\* pointer-typed load of a slot, where following each slot's last store leads
\* through loads of further slots to an allocation, yields exactly one
\* escape-via-return diagnostic at the return, citing that allocation.
C2_IndirectReturn ==
  Done =>
    \A p \in Positions :
      LET ret == At(p) IN
      (/\ Kind(ret) = "Return" /\ Len(Ops(ret)) = 1
       /\ Kind(Ops(ret)[1]) = "UnOp" /\ TypeOf(Ops(ret)[1]) \in PointerTypes
       /\ ChainAlloc(Ops(ret)[1], {}) # "none")
      => DiagsAt("return", p) =
           <<[kind |-> "return", pos |-> p,
              allocPos |-> PosOf(ChainAlloc(Ops(ret)[1], {}))]>>

C2_Witness ==
  /\ Done
  /\ fn = << <<"cr1", "al1", "st1", "lds1", "st2", "lds2", "st3", "lds3", "rets3">> >>
  /\ diags = <<[kind |-> "return", pos |-> <<1, 9>>, allocPos |-> <<1, 2>>]>>

\* Every returned value of the function has a non-pointer static type.
AllReturnsByValue ==
  \A p \in Positions :
    Kind(At(p)) = "Return" =>
      \A k \in 1..Len(Ops(At(p))) : TypeOf(Ops(At(p))[k]) \notin PointerTypes

C4_GlobalTypeFilter ==
  \A k \in 1..Len(diags) :
    diags[k].kind = "global" => TypeOf(Ops(At(diags[k].pos))[2]) \in PointerTypes

\* C5. Global escape: a store of a pointer-typed allocation to a global
\* yields exactly one escape-via-global diagnostic at the store, citing the
\* allocate site; for `r = create; v = allocate(r); global = v` it is the
\* only diagnostic.
C5_GlobalEscape ==
  Done =>
    /\ \A p \in Positions :
         LET st == At(p) IN
         (/\ Kind(st) = "Store" /\ Kind(Ops(st)[1]) = "Global"
          /\ IsAllocate(Ops(st)[2]) /\ TypeOf(Ops(st)[2]) \in PointerTypes)
         => DiagsAt("global", p) =
              <<[kind |-> "global", pos |-> p, allocPos |-> PosOf(Ops(st)[2])]>>
    /\ Flat(fn) = <<"cr1", "al1", "stg">> =>
         diags = <<[kind |-> "global", pos |-> PosOf("stg"), allocPos |-> PosOf("al1")]>>

C5_Witness ==
  /\ Done /\ fn = << <<"cr1", "al1", "stg">> >>
  /\ diags = <<[kind |-> "global", pos |-> <<1, 3>>, allocPos |-> <<1, 2>>]>>

\* The operands of the instruction at p that resolve to an allocation of
\* region r.
OperandsInto(p, r) ==
  {k \in 1..Len(Operands(At(p))) :
     LET a == findAllocation(Operands(At(p))[k], allocations, storesTo)
     IN  a # NoAlloc /\ a.arena = r}

\* C6. Use-after-free: an instruction that follows, in its block, a release
\* of region r and has an operand resolving to an allocation of r gets one
\* use-after-free diagnostic; for `r = create; v = allocate(r); release(r);
\* use(v)` that diagnostic, at use(v), is the only use-after-free reported.
C6_UseAfterFree ==
  Done =>
    /\ \A p, q \in Positions :
         (/\ q[1] = p[1] /\ q[2] < p[2] /\ IsRelease(At(q))
          /\ OperandsInto(p, RegionOf(At(q))) # {})
         => Len(DiagsAt("uaf", p)) = 1
    /\ \A u \in Instrs :
         (Flat(fn) = <<"cr1", "al1", "fr1", u>> /\ Len(fn) = 1 /\ "al1" \in Range(Ops(u)))
         => DiagsOf("uaf") = <<[kind |-> "uaf", pos |-> <<1, 4>>, allocPos |-> <<1, 2>>]>>

C6_Witness ==
  /\ Done /\ fn = << <<"cr1", "al1", "fr1", "ld1">> >>
  /\ diags = <<[kind |-> "uaf", pos |-> <<1, 4>>, allocPos |-> <<1, 2>>]>>

\* C7. Double free: a second release of the same region, in the same block
\* or another, gets a double-free diagnostic at that release.
C7_DoubleFree ==
  Done =>
    \A p, q \in Positions :
      (/\ Before(q, p) /\ IsRelease(At(q)) /\ IsRelease(At(p))
       /\ RegionOf(At(q)) = RegionOf(At(p)))
      => \E k \in 1..Len(diags) : diags[k].kind = "double-free" /\ diags[k].pos = p

\* C8. Block-local release tracking: the released set is empty when the
\* sweep of a block starts, and every use-after-free diagnostic has a release
\* of the allocation's region in its own block, at or before its instruction.
C8_BlockLocal ==
  /\ (pc = "pass2" /\ ii = 1) => freedArenas = {}
  /\ \A k \in 1..Len(diags) :
       diags[k].kind = "uaf" =>
         \E q \in Positions :
           /\ q[1] = diags[k].pos[1] /\ q[2] <= diags[k].pos[2]
           /\ IsRelease(At(q))
           /\ RegionOf(At(q)) = RegionOf(At(diags[k].allocPos))

C8_Witness ==
  /\ Done /\ fn = << <<"cr1", "al1", "fr1">>, <<"ld1">> >>
  /\ OperandsInto(<<2, 1>>, "cr1") # {}
  /\ diags = <<>>

\* C9. At most one use-after-free diagnostic per instruction.
C9_OnePerInstruction ==
  \A p \in Positions : Len(DiagsAt("uaf", p)) <= 1

C9_Witness ==
  /\ Done
  /\ \E p \in Positions :
       /\ Len(DiagsAt("uaf", p)) = 1
       /\ Cardinality({k \in 1..Len(Operands(At(p))) :
             \E q \in Positions :
               /\ q[1] = p[1] /\ q[2] < p[2] /\ IsRelease(At(q))
               /\ k \in OperandsInto(p, RegionOf(At(q)))}) > 1

\* The provenance edges of a value, and what they reach.
EdgesOf(v) ==
  CASE Kind(v) = "UnOp" ->
         {Ops(v)[1]} \cup (IF Ops(v)[1] \in DOMAIN storesTo
                            THEN {storesTo[Ops(v)[1]]} ELSE {})
    [] Kind(v) \in {"FieldAddr", "IndexAddr", "MakeInterface"} -> {Ops(v)[1]}
    [] Kind(v) = "Phi" -> Range(Ops(v))
    [] OTHER -> {}

RECURSIVE Reach(_, _)
Reach(frontier, seen) ==
  IF frontier \subseteq seen THEN seen
  ELSE Reach(UNION {EdgesOf(v) : v \in frontier}, seen \cup frontier)

NoDup(s) == \A j, k \in 1..Len(s) : j # k => s[j] # s[k]
OnCycle(v) == v \in Reach(EdgesOf(v), {})

\* The values of the function: its instructions and their operands.
Used == UNION {{At(p)} \cup Range(Ops(At(p))) : p \in Positions}

\* C10. Cycle safety: resolution enters each value at most once (also from a
\* merge that lies on a cycle), returns none when no tracked allocation is
\* reachable, and a return of such a merge is not reported.
C10_CycleSafety ==
  /\ \A v \in Used :
       LET r == findAllocationRec(v, allocations, storesTo, {}) IN
       /\ NoDup(r.trace)
       /\ Range(r.trace) = r.visited
       /\ Reach({v}, {}) \cap DOMAIN allocations = {} => r.alloc = NoAlloc
  /\ \A k \in 1..Len(diags) :
       diags[k].kind = "return" =>
         \E j \in 1..Len(Ops(At(diags[k].pos))) :
           Reach({Ops(At(diags[k].pos))[j]}, {}) \cap DOMAIN allocations # {}

C10_Witness ==
  /\ Done /\ Has("retphB") /\ Kind("phiB") = "Phi" /\ OnCycle("phiB")
  /\ "al1" \in DOMAIN allocations
  /\ findAllocationRec("phiB", allocations, storesTo, {}).trace = <<"phiB", "phiC", "nil">>
  /\ findAllocation("phiB", allocations, storesTo) = NoAlloc
  /\ DiagsAt("return", PosOf("retphB")) = <<>>

\* ------------------------------------------------------------------
\* C13. Untracked-region allocations are ignored: an allocate instruction
\* whose region operand is not a region created earlier in the analysed
\* function (a region parameter, for one) never enters the allocation map,
\* and every diagnostic names an allocation into a region created earlier:
\* none is produced for a value derived from an untracked allocation only.
C13_UntrackedRegion ==
  /\ \A i \in DOMAIN allocations : IsAllocate(i)
  /\ \A k \in 1..Len(diags) :
       \E p \in Positions : IsAllocate(At(p)) /\ diags[k].allocPos = p
  /\ (\A p \in Positions : ~IsAllocate(At(p))) => diags = <<>>

\* helper(a) returning its allocation, storing it in a global, or reading it
\* after another region was released: analysed to the end, nothing recorded.
C13_Witness ==
  /\ Done
  /\ Has("alp") /\ "alp" \notin DOMAIN allocations
  /\ \E p \in Positions : "alp" \in Range(Ops(At(p)))
  /\ diags = <<>>

\* ------------------------------------------------------------------
\* A result that carries a tracked allocation on some path: the allocation
\* itself, or a merge one of whose edges is the allocation.  A result that
\* carries nil only.
Carried(x) ==
  IF IsAllocate(x) THEN {x}
  ELSE IF Kind(x) = "Phi" THEN {e \in Range(Ops(x)) : IsAllocate(e)}
  ELSE {}
OnlyNil(x) == x = "nil" \/ (Kind(x) = "Phi" /\ Range(Ops(x)) = {"nil"})

\* C15. Conditional escape: a return whose pointer-typed result carries a
\* tracked allocation (directly, or as a merge of the allocation and nil) is
\* flagged as an escape via return citing that allocation, and a return whose
\* results are nil only is not flagged.
C15_ConditionalEscape ==
  Done =>
    \A p \in Positions :
      Kind(At(p)) = "Return" =>
        LET res == Ops(At(p))
        IN  /\ \A k \in 1..Len(res) :
                 (TypeOf(res[k]) \in PointerTypes /\ Carried(res[k]) # {}) =>
                   \E j \in 1..Len(diags) :
                     /\ diags[j].kind = "return" /\ diags[j].pos = p
                     /\ \E a \in Carried(res[k]) : diags[j].allocPos = PosOf(a)
            /\ (\A k \in 1..Len(res) : OnlyNil(res[k])) => DiagsAt("return", p) = <<>>

\* conditionalEscape: the block returning the allocation is flagged, the
\* block returning nil is not.
C15_Witness ==
  /\ Done
  /\ fn \in Branching
  /\ Len(DiagsAt("return", PosOf("retv"))) = 1
  /\ DiagsAt("return", PosOf("retnil")) = <<>>
  /\ Len(diags) = 1

\* ------------------------------------------------------------------
\* C17. Interface escape: a return whose result is a tracked allocation
\* boxed into an interface (interfaceEscape: return arena.New[int](a) with
\* result type interface{}) is reported as an escape via return.
C17_InterfaceEscape ==
  Done =>
    \A p \in Positions :
      Kind(At(p)) = "Return" =>
        \A k \in 1..Len(Ops(At(p))) :
          LET x == Ops(At(p))[k]
          IN  (Kind(x) = "MakeInterface" /\ IsAllocate(Ops(x)[1])) =>
                DiagsAt("return", p) # <<>>

\* ------------------------------------------------------------------
\* The function releases its regions by deferred calls only; it stores
\* nothing in a global.
DeferredReleaseOnly ==
  /\ \E p \in Positions : Kind(At(p)) = "Defer" /\ IsFreeName(Tbl(At(p)).callee)
  /\ \A p \in Positions : ~(Kind(At(p)) = "Call" /\ IsFreeName(Tbl(At(p)).callee))
NoGlobalStore ==
  \A p \in Positions : Kind(At(p)) = "Store" => ~isGlobalVar(Ops(At(p))[1])

\* C18. Deferred release is safe usage: a function whose only release of
\* the region is deferred, which stores nothing in a global and returns
\* nothing or non-pointer values, gets no diagnostic of any kind, at any
\* moment of the analysis; the deferred call is never taken for a release.
C18_DeferredRelease ==
  (DeferredReleaseOnly /\ NoGlobalStore /\ AllReturnsByValue) =>
    /\ diags = <<>>
    /\ freeInstrs = <<>>
    /\ freedArenas = {}

\* test7SafeNoEscape: the region is created, its release deferred, a field
\* of the allocation written and read back, the int returned.
C18_Witness ==
  /\ Done
  /\ fn = << <<"cr1", "df1", "al1", "fa1", "stf", "ldx", "retx">> >>
  /\ "al1" \in DOMAIN allocations
  /\ diags = <<>>

\* ==================================================================
\* Claims about the loop over the functions of a package (SpecRun).

DiagsOfFunc(f) ==
  LET idx == SelectSeq([k \in 1..Len(diags) |-> k], LAMBDA k : diagFunc[k] = f)
  IN  [n \in 1..Len(idx) |-> diags[idx[n]]]

\* C11. Determinism: two analyses of the same function (same blocks,
\* instructions and operands) report the same sequence of diagnostics: the
\* same kinds, locations and originating-allocation locations in the same
\* order.
C11_Determinism ==
  \A j, k \in 1..Len(results) :
    fns[results[j].fi] = fns[results[k].fi] =>
      DiagsOfFunc(results[j].fi) = DiagsOfFunc(results[k].fi)

\* The same function analysed twice, with another in between, each analysis
\* reporting the same three diagnostics.
C11_Witness ==
  /\ pc = "end"
  /\ Len(results) = 3
  /\ fns[1] = fns[3] /\ fns[1] # fns[2]
  /\ Len(DiagsOfFunc(1)) = 3
  /\ DiagsOfFunc(3) = DiagsOfFunc(1)
  /\ DiagsOfFunc(2) # <<>>

\* The locations, in the blocks of a function, of a set of instructions, and
\* the locations recorded in an allocation map.
LocsIn(blocks, S) ==
  UNION {{<<b, k>> : k \in {n \in 1..Len(blocks[b]) : blocks[b][n] \in S}} :
         b \in 1..Len(blocks)}
AllocLocs(m) == {m[a].allocPos : a \in DOMAIN m}

\* C14. Idempotent tracking: two runs of the tracking pass over the same
\* instruction stream leave region maps of equal size and allocation maps of
\* equal size, with equal sets of creation locations and of allocation
\* locations.
C14_IdempotentTracking ==
  \A j, k \in 1..Len(results) :
    fns[results[j].fi] = fns[results[k].fi] =>
      LET blocks == fns[results[j].fi].Blocks
          r == results[j]
          q == results[k]
      IN  /\ Cardinality(r.arenas) = Cardinality(q.arenas)
          /\ Cardinality(DOMAIN r.allocations) = Cardinality(DOMAIN q.allocations)
          /\ LocsIn(blocks, r.arenas) = LocsIn(blocks, q.arenas)
          /\ AllocLocs(r.allocations) = AllocLocs(q.allocations)

\* The tracking pass has run twice over a function that creates a region
\* and allocates in it: one region and one allocation each time.
C14_Witness ==
  /\ pc = "end"
  /\ Len(results) >= 2
  /\ fns[results[1].fi] = fns[results[2].fi]
  /\ Cardinality(results[1].arenas) = 1 /\ Cardinality(results[2].arenas) = 1
  /\ AllocLocs(results[1].allocations) = {<<1, 2>>}
  /\ AllocLocs(results[2].allocations) = {<<1, 2>>}

\* A function that is absent or has no blocks; the indices of the others.
Bodiless(f) == f = NilFunc \/ f.Blocks = <<>>
WithBody == SelectSeq([k \in 1..Len(fns) |-> k], LAMBDA k : ~Bodiless(fns[k]))

\* C16. Robust skipping: a function that is absent or has no blocks is
\* skipped: it is never analysed, no diagnostic is attributed to it and the
\* analysis never faults; the remaining functions are all analysed, in
\* order.  A call without arguments that bears the allocate or release name
\* is ignored: it enters neither the allocation map nor the release map.
C16_RobustSkipping ==
  /\ pc # "fault"
  /\ \A k \in 1..Len(results) : results[k].fi = WithBody[k]
  /\ pc = "end" => Len(results) = Len(WithBody)
  /\ \A k \in 1..Len(diagFunc) : ~Bodiless(fns[diagFunc[k]])
  /\ (pc \in {"pass1", "enter", "pass2", "done"}) => ~Bodiless(fns[fi]) /\ fn = fns[fi].Blocks
  /\ \A i \in DOMAIN allocations \cup DOMAIN freeInstrs : Ops(i) # <<>>

\* A nil function and a function without blocks are passed over, then a
\* function with argument-less New and Free calls is analysed: its one
\* real allocation is tracked and its global store reported.
C16_Witness ==
  /\ pc = "end"
  /\ fns = <<NilFunc, Func(<<>>), Func(<< <<"cr1", "al0", "fr0", "al1", "stg">> >>)>>
  /\ Len(results) = 1 /\ results[1].fi = 3
  /\ DOMAIN results[1].allocations = {"al1"}
  /\ Len(diags) = 1 /\ diags[1].kind = "global" /\ diagFunc = <<3>>

\* ==================================================================
\* Claims about the runtime library (SpecRt).

\* C19. Runtime use-after-free: a Get, Deref or Slice.Get on a handle
\* returns what the handle holds (the pointer, the value behind it, the
\* slice) whenever Free has not been called on its arena by the time it
\* completes, and panics with "arena <id>: use after free" whenever a Free
\* of its arena had returned before it read the flag; the freed flag of an
\* arena on which Free was called stays set.
C19_RuntimeUseAfterFree ==
  /\ last.op \in {"Get", "Deref", "SliceGet"} =>
       LET h == handles[last.handle]
           a == arenaObjs[last.arena]
       IN  /\ h.arena = last.arena
           /\ last.after =>
                /\ last.out.panic
                /\ last.out.val = <<"arena", a.id, "use after free">>
           /\ ~last.called =>
                /\ ~last.out.panic
                /\ last.out.val = (IF last.op = "Deref" THEN h.value ELSE h.ptr)
  /\ \A a \in 1..Len(arenaObjs) :
       (arenaObjs[a].called \/ arenaObjs[a].inner > 0) => arenaObjs[a].freed

\* Two handles of one arena, a Ptr and a Slice; Free has returned; the Get
\* on the second handle has just panicked.
C19_Witness ==
  /\ Len(handles) = 2
  /\ handles[1].arena = 1 /\ handles[2].arena = 1
  /\ handles[1].kind # handles[2].kind
  /\ arenaObjs[1].inner = 1
  /\ last.op \in {"Get", "SliceGet"} /\ last.handle = 2 /\ last.after
  /\ last.out.panic

\* C20. Runtime double free: the first Free of an arena succeeds and
\* releases the inner arena; every later Free of it panics with
\* "arena <id>: double free" and releases nothing: the inner arena is freed
\* at most once, and exactly once when the first Free has returned.
C20_RuntimeDoubleFree ==
  /\ \A a \in 1..Len(arenaObjs) : arenaObjs[a].inner <= 1
  /\ last.op = "Free" =>
       LET a == arenaObjs[last.arena]
       IN  /\ last.first => ~last.out.panic /\ a.inner = 1
           /\ ~last.first =>
                /\ last.out.panic
                /\ last.out.val = <<"arena", a.id, "double free">>

\* TestDoubleFree: the arena was freed, its inner arena released once, and
\* a second Free has just panicked.
C20_Witness ==
  /\ last.op = "Free" /\ ~last.first /\ last.out.panic
  /\ arenaObjs[last.arena].inner = 1
  /\ \A g \in Goroutines : gor[g] = Idle

\* ==================================================================
\* Further claims about the analysis of one function (Spec).

\* C28. Release instructions are exempt from the use-after-free check: a
\* release instruction is never reported as a use-after-free, whatever its
\* operands, an operand resolving to an allocation of the region it
\* releases included.
C28_ReleaseExempt ==
  Done =>
    \A p \in Positions : IsRelease(At(p)) => DiagsAt("uaf", p) = <<>>

\* C29. Liveness-agnostic merge in use-after-free: an instruction that
\* follows, in its block, a release of region r and uses a merge (phi) one
\* of whose incoming edges is an allocation owned by r is reported as a
\* use-after-free, whatever the order of the edges and whatever the other
\* edges resolve to.
C29_MergeUseAfterFree ==
  Done =>
    \A p, q \in Positions :
      (/\ q[1] = p[1] /\ q[2] < p[2] /\ IsRelease(At(q))
       /\ \E k \in 1..Len(Operands(At(p))) :
            LET x == Operands(At(p))[k]
            IN  /\ Kind(x) = "Phi"
                /\ \E e \in Range(Ops(x)) : IsAllocate(e) /\ RegionOf(e) = RegionOf(At(q)))
      => DiagsAt("uaf", p) # <<>>

\* C30. Interface wrap and unwrap are both provenance edges: a value that
\* wraps an operand into an interface, and a value obtained by unwrapping
\* (type-asserting) an interface, each resolve to the allocation their
\* operand resolves to, when it resolves to one.
C30_WrapUnwrap ==
  Done =>
    \A x \in Used :
      Kind(x) \in {"MakeInterface", "TypeAssert"} =>
        LET inner == findAllocation(Ops(x)[1], allocations, storesTo)
        IN  inner # NoAlloc => findAllocation(x, allocations, storesTo) = inner

\* ==================================================================
\* Further claims about the runtime library (SpecRt).

\* C21. Runtime allocation after free: an Alloc or AllocSlice that reads
\* the flag of an arena after a Free of that arena has returned panics with
\* "arena <id>: allocation after free" and returns no handle; no handle was
\* ever made by such a call.
C21_AllocAfterFree ==
  /\ (last.op \in {"Ptr", "Slice"} /\ last.after) =>
       /\ last.out.panic
       /\ last.out.val = <<"arena", arenaObjs[last.arena].id, "allocation after free">>
       /\ last.handle = 0
  /\ \A h \in 1..Len(handles) : ~handles[h].late

\* TestAllocAfterFree: the arena was freed, then an allocation in it was
\* tried and panicked; the handles are those made before the Free.
C21_Witness ==
  /\ last.op \in {"Ptr", "Slice"} /\ last.after /\ last.out.panic
  /\ arenaObjs[last.arena].inner = 1
  /\ Len(handles) = 1 /\ handles[1].arena = last.arena
  /\ \A g \in Goroutines : gor[g] = Idle

\* The calls of Free on arena a that won the swap: those that have released
\* the inner arena and those about to.
Winners(a) ==
  arenaObjs[a].inner +
  Cardinality({g \in Goroutines : gor[g].pc = "free" /\ gor[g].arena = a})

\* C24. Thread-safe destruction: when goroutines call Free concurrently on
\* one arena, in every interleaving exactly one call wins the swap, and it
\* alone releases the inner arena; a call that loses panics with
\* "arena <id>: double free"; the inner arena is released once, and has
\* been released when no Free is in progress any more.
C24_ConcurrentFree ==
  /\ \A a \in 1..Len(arenaObjs) :
       /\ Winners(a) = (IF arenaObjs[a].called THEN 1 ELSE 0)
       /\ (arenaObjs[a].called /\ \A g \in Goroutines : gor[g].pc # "free") =>
            arenaObjs[a].inner = 1
  /\ (last.op = "Free" /\ last.out.panic) =>
       /\ Winners(last.arena) = 1
       /\ last.out.val = <<"arena", arenaObjs[last.arena].id, "double free">>

\* One goroutine has won the swap and not yet released the inner arena
\* when the other's Free of the same arena panics.
C24_Witness ==
  /\ last.op = "Free" /\ last.out.panic
  /\ arenaObjs[last.arena].inner = 0
  /\ \E g \in Goroutines : gor[g].pc = "free" /\ gor[g].arena = last.arena


\* The kind of a panic: the text after "arena <id>: ", or the fault itself.
PanicKind(out) == IF Len(out.val) >= 3 THEN out.val[3] ELSE out.val[1]

\* C26: after every call of a sequence of New, Alloc, AllocSlice, Get, Deref,
\* Slice.Get, Clone and Free calls, the optimized variant given the same
\* calls has returned the same value, or has panicked with a panic of the
\* same kind.
C26_OptEquivalent ==
  gor["g1"] = Idle /\ last.op # "none" =>
    /\ opt.last.op = last.op
    /\ opt.last.out.panic = last.out.panic
    /\ IF last.out.panic
       THEN PanicKind(opt.last.out) = PanicKind(last.out)
       ELSE opt.last.out.val = last.out.val

\* Both variants have refused a Clone of a pointer whose arena was freed,
\* after an earlier Clone gave each a copy.
C26_Witness ==
  /\ gor["g1"] = Idle
  /\ last.op = "Clone" /\ last.out.panic /\ opt.last.out.panic
  /\ PanicKind(last.out) = "use after free"
  /\ heap # <<>> /\ opt.heap # <<>>


\* C23: a Clone of a pointer whose arena has not been freed returns a copy
\* equal to the value stored at the pointer; the copy is read without panic
\* and with that value whether or not the arena has been freed since; a
\* Clone of a pointer whose arena has been freed panics with use after free
\* and makes no copy.
C23_Clone ==
  /\ gor["g1"] = Idle /\ last.op = "Clone" /\ ~last.called =>
       /\ ~last.out.panic
       /\ heap[last.out.val].from = last.handle
       /\ heap[last.out.val].value = handles[last.handle].value
  /\ last.op = "ReadCopy" =>
       /\ ~last.out.panic
       /\ last.out.val = handles[last.handle].value
  /\ gor["g1"] = Idle /\ last.op = "Clone" /\ last.called =>
       /\ last.out.panic
       /\ PanicKind(last.out) = "use after free"
  /\ \A k \in 1..Len(heap) : ~heap[k].late

\* The copy has been read, with the stored value, after the arena of the
\* pointer it was cloned from was released.
C23_Witness ==
  /\ last.op = "ReadCopy" /\ ~last.out.panic
  /\ arenaObjs[last.arena].inner = 1
  /\ last.out.val = handles[last.handle].value


\* C22: the arena Scoped (or ScopedPtr) hands to the callback is fresh; once
\* the callback has ended, by return or by panic, and Scoped has terminated,
\* the arena is freed and its memory has been released exactly once; no
\* arena is released twice; a Get on a Ptr or Slice handle of an arena whose
\* Scoped has terminated panics with use after free.
C22_Scoped ==
  /\ gor["g1"] = Idle /\ last.op = "New" =>
       /\ ~arenaObjs[last.arena].freed /\ arenaObjs[last.arena].inner = 0
       /\ \A h \in 1..Len(handles) : handles[h].arena # last.arena
  /\ \A a \in scopes.ended :
       /\ arenaObjs[a].freed
       /\ arenaObjs[a].inner = IF gor["g1"].pc = "free" /\ gor["g1"].arena = a THEN 0 ELSE 1
  /\ \A a \in 1..Len(arenaObjs) : arenaObjs[a].inner <= 1
  /\ gor["g1"] = Idle /\ last.op \in {"Get", "SliceGet"} /\ scopes.leak =>
       /\ last.out.panic
       /\ PanicKind(last.out) = "use after free"

\* A callback has ended by a panic, its Scoped has released the arena, and a
\* Get on a handle that leaked out of it has panicked.
C22_Witness ==
  /\ gor["g1"] = Idle
  /\ scopes.how = "panic" /\ scopes.leak
  /\ last.op = "Get" /\ last.out.panic
  /\ last.arena \in scopes.ended
  /\ arenaObjs[last.arena].inner = 1


\* C25: an arena is freed, and its memory released, only by a Free called on
\* that arena; a Get, Deref or Slice.Get on a handle of an arena on which
\* Free has not been called returns the pointer, the stored value or the
\* slice, whatever arenas around it have been freed, nested or in any order.
C25_Independent ==
  /\ \A b \in 1..Len(arenaObjs) :
       arenaObjs[b].freed \/ arenaObjs[b].inner > 0 => arenaObjs[b].called
  /\ gor["g1"] = Idle /\ last.op \in {"Get", "Deref", "SliceGet"} /\ ~last.called =>
       /\ ~last.out.panic
       /\ last.out.val = IF last.op = "Deref" THEN handles[last.handle].value
                         ELSE handles[last.handle].ptr

\* A handle of the outer arena has given its value inside the outer
\* callback after the nested Scoped ended and released the inner arena.
C25_Witness ==
  /\ gor["g1"] = Idle
  /\ last.op = "Deref" /\ ~last.out.panic
  /\ last.out.val = handles[last.handle].value
  /\ \E i \in 1..Len(scopes.open) : scopes.open[i] = last.arena
  /\ \E b \in scopes.ended : b > last.arena /\ arenaObjs[b].inner = 1


\* C27: when String() is called on a StringBuilder made with capacity c in
\* an arena that has not been freed, after Append calls whose total length
\* is at most c, it returns the appended strings concatenated in call order.
C27_Concatenation ==
  last.op = "String" /\ ~last.called /\ Len(sb.want) <= Len(sb.buffers) =>
    /\ ~last.out.panic
    /\ last.out.val = sb.want

\* Two non-empty strings that fill the buffer to its capacity have been
\* appended and String() has returned.
C27_Witness ==
  /\ last.op = "String" /\ ~last.out.panic
  /\ sb.n = 2 /\ Len(sb.want) = Len(sb.buffers)
  /\ sb.want = <<"a", "b", "a">>
  /\ last.out.val = sb.want


\* ==================================================================
\* C38. StringBuilder length bound: after any sequence of Append calls on
\* a StringBuilder of capacity c the recorded length is at most c, and
\* String() never slices the buffer beyond its capacity.
C38_LengthBound ==
  sb.made =>
    /\ sb.length <= Len(sb.buffers)
    /\ last.op = "String" /\ ~last.called => ~last.out.panic


\* C37: when Free has been called on the arena of a Scoped or ScopedPtr
\* before its callback ended, the deferred Free panics with double free,
\* Scoped terminates with that panic and not with the callback's result, and
\* the inner arena has been released exactly once.
C37_CallbackFrees ==
  scopes.term.arena # 0 /\ scopes.term.self =>
    /\ scopes.term.out.panic
    /\ PanicKind(scopes.term.out) = "double free"
    /\ arenaObjs[scopes.term.arena].inner = 1

\* A callback that freed its arena has returned, and the deferred Free has
\* just panicked.
C37_Witness ==
  /\ scopes.term.arena # 0 /\ scopes.term.self
  /\ scopes.how = "return"
  /\ last.op = "Free" /\ last.arena = scopes.term.arena /\ ~last.first
  /\ last.out.panic /\ PanicKind(last.out) = "double free"
  /\ arenaObjs[scopes.term.arena].inner = 1


\* C36: flag before release. In every reachable state, under any
\* interleaving, an arena whose inner arena has been released, or is about
\* to be by a Free that has made its swap, has its freed flag set; and once
\* a Free has been called on an arena the flag stays set.
C36_FlagBeforeRelease ==
  \A a \in 1..Len(arenaObjs) :
    /\ arenaObjs[a].inner > 0 => arenaObjs[a].freed
    /\ (\E g \in Goroutines : gor[g].pc = "free" /\ gor[g].arena = a) => arenaObjs[a].freed
    /\ arenaObjs[a].called => arenaObjs[a].freed

\* The inner arena has been released while the other goroutine is between
\* the check and the allocation of an Alloc; the flag is set.
C36_Witness ==
  \E a \in 1..Len(arenaObjs) :
    /\ arenaObjs[a].inner = 1 /\ arenaObjs[a].freed
    /\ \E g \in Goroutines : gor[g].pc = "alloc" /\ gor[g].arena = a


\* C33: no operation on the inner arena after its release. In every
\* interleaving of an Alloc or a Ptr.Get on one goroutine with a Free on
\* another, the call that has passed the check of the flag allocates in the
\* inner arena, or hands out the arena pointer, before the inner arena is
\* released: no goroutine stands between the check and the inner operation
\* while the inner arena of its arena has been released.
C33_NoInnerUseAfterRelease ==
  \A g \in Goroutines :
    (gor[g].pc \in {"alloc", "get"} /\ gor[g].op \in {"Ptr", "Get"}) =>
      arenaObjs[gor[g].arena].inner = 0


\* C34: resolution is exact reachability. With a fresh visited set,
\* resolving a value gives an allocation if and only if a tracked allocation
\* is reachable from it along the provenance edges (load: value last stored
\* and operand; field or index address: base; merge: every edge; interface
\* wrap: operand), and then one of the reachable ones; a value of any other
\* shape that is not itself a tracked allocation resolves to none.
C34_ExactReachability ==
  \A v \in Used :
    LET a == findAllocation(v, allocations, storesTo)
        reached == Reach({v}, {}) \cap DOMAIN allocations
    IN  /\ (a # NoAlloc) <=> (reached # {})
        /\ a # NoAlloc => \E x \in reached : allocations[x] = a
        /\ (EdgesOf(v) = {} /\ v \notin DOMAIN allocations) => a = NoAlloc

\* Two merges on a cycle: the first edge of phiD is phiE, which resolves to
\* none under the visited set it shares with phiD, the second is phiE
\* again, the third the allocation; both merges resolve to it.
C34_Witness ==
  /\ Done /\ Has("retphD")
  /\ "al1" \in DOMAIN allocations
  /\ findAllocationRec("phiE", allocations, storesTo, {"phiD"}).alloc = NoAlloc
  /\ findAllocation("phiD", allocations, storesTo) = allocations["al1"]
  /\ findAllocation("phiE", allocations, storesTo) = allocations["al1"]


\* The stores into a slot, and the position of the last of them in the
\* order of the blocks and of their instructions.
StoresInto(addr) ==
  {p \in Positions : Kind(At(p)) = "Store" /\ Ops(At(p))[1] = addr}

LastStoreInto(addr) ==
  CHOOSE p \in StoresInto(addr) : \A q \in StoresInto(addr) : q = p \/ Before(q, p)

\* C35: load-after-store is flow-insensitive. Once the first pass is over,
\* the value recorded for a slot is the value of the last store into it in
\* block and instruction order; a load of a local slot resolves to what that
\* value resolves to, wherever the load stands with respect to the stores:
\* to none when the slot received an allocation first and a non-allocation
\* last, and a return of such a load is not reported.
C35_FlowInsensitive ==
  pc # "pass1" =>
    /\ \A p \in Positions :
         Kind(At(p)) = "Store" =>
           LET addr == Ops(At(p))[1]
           IN  storesTo[addr] = Ops(At(LastStoreInto(addr)))[2]
    /\ \A v \in Used :
         (Kind(v) = "UnOp" /\ Kind(Ops(v)[1]) = "Alloc" /\ StoresInto(Ops(v)[1]) # {}) =>
           findAllocation(v, allocations, storesTo) =
             findAllocation(Ops(At(LastStoreInto(Ops(v)[1])))[2], allocations, storesTo)
    /\ Done =>
         \A p \in Positions :
           LET ret == At(p) IN
           (/\ Kind(ret) = "Return" /\ Len(Ops(ret)) = 1
            /\ Kind(Ops(ret)[1]) = "UnOp" /\ Kind(Ops(Ops(ret)[1])[1]) = "Alloc"
            /\ StoresInto(Ops(Ops(ret)[1])[1]) # {}
            /\ Kind(Ops(At(LastStoreInto(Ops(Ops(ret)[1])[1])))[2]) = "Const")
           => DiagsAt("return", p) = <<>>

\* The slot receives the allocation, is loaded, then receives nil; the
\* load, which stands between the two stores, is returned; nothing is
\* reported.
C35_Witness ==
  /\ Done
  /\ Flat(fn) = <<"cr1", "al1", "st1", "lds1", "st1n", "rets1">>
  /\ findAllocation("lds1", allocations, storesTo) = NoAlloc
  /\ diags = <<>>


\* A load through the address of a field or an element of an allocation
\* into a region of the function.
MemberLoad(v) ==
  /\ Kind(v) = "UnOp"
  /\ Kind(Ops(v)[1]) \in {"FieldAddr", "IndexAddr"}
  /\ IsAllocate(Ops(Ops(v)[1])[1])

\* C31: member-level granularity is not tracked. The address of a field or
\* of an element resolves to the allocation its base resolves to; a
\* pointer-typed value loaded from a field or an element of an allocation is
\* reported when it is returned, and a value so loaded when it is stored in
\* a global, whatever was stored in the field or the element.
C31_MemberGranularity ==
  /\ \A v \in Used :
       Kind(v) \in {"FieldAddr", "IndexAddr"} =>
         LET base == findAllocation(Ops(v)[1], allocations, storesTo)
         IN  base # NoAlloc => findAllocation(v, allocations, storesTo) = base
  /\ Done =>
       \A p \in Positions :
         /\ Kind(At(p)) = "Return" =>
              \A k \in 1..Len(Ops(At(p))) :
                (MemberLoad(Ops(At(p))[k]) /\ TypeOf(Ops(At(p))[k]) \in PointerTypes) =>
                  DiagsAt("return", p) # <<>>
         /\ (Kind(At(p)) = "Store" /\ Kind(Ops(At(p))[1]) = "Global"
             /\ MemberLoad(Ops(At(p))[2])) =>
              DiagsAt("global", p) # <<>>

\* The field of the allocation receives a pointer that is no allocation
\* (a parameter); the field is loaded and returned, and the return is
\* reported with the allocation of the aggregate.
C31_Witness ==
  /\ Done
  /\ Flat(fn) = <<"cr1", "al1", "fa1", "stfh", "ldf", "retf">>
  /\ storesTo["fa1"] = "a0"
  /\ Len(diags) = 1 /\ diags[1].kind = "return" /\ diags[1].allocPos = PosOf("al1")


\* ==================================================================
\* checkFunctionFinal2 as a function of the blocks alone
\* (analyzer_final.go:45-142): the maps after the first pass over the
\* instructions from <<b, k>> on, starting from the maps m.
RECURSIVE FirstPassFrom(_, _, _, _)
FirstPassFrom(blocks, b, k, m) ==
  IF b > Len(blocks) THEN m
  ELSE IF k > Len(blocks[b]) THEN FirstPassFrom(blocks, b + 1, 1, m)
  ELSE
    LET instr == blocks[b][k]
        isCall == isStaticCall(instr)
        name == Tbl(instr).callee
        args == Ops(instr)
        arenas1 == IF isCall /\ IsNewArenaName(name)
                   THEN m.arenas \cup {instr} ELSE m.arenas
    IN  FirstPassFrom(blocks, b, k + 1,
          [arenas |-> arenas1,
           allocations |->
             IF isCall /\ IsNewName(name) /\ regionTracked(args, arenas1)
             THEN (instr :> [arena |-> args[1], value |-> instr, allocPos |-> <<b, k>>])
                  @@ m.allocations
             ELSE m.allocations,
           freeInstrs |->
             IF isCall /\ IsFreeName(name) /\ Len(args) > 0 /\ args[1] \in arenas1
             THEN (instr :> args[1]) @@ m.freeInstrs
             ELSE m.freeInstrs,
           storesTo |->
             IF Kind(instr) = "Store"
             THEN recordStore(m.storesTo, Ops(instr)[1], Ops(instr)[2])
             ELSE m.storesTo])

\* The reports of the second pass over the instructions from <<b, k>> on,
\* with the maps m of the first pass and the regions freed so far in the
\* block.
RECURSIVE SecondPassFrom(_, _, _, _, _)
SecondPassFrom(blocks, b, k, freed, m) ==
  IF b > Len(blocks) THEN <<>>
  ELSE IF k > Len(blocks[b]) THEN SecondPassFrom(blocks, b + 1, 1, {}, m)
  ELSE
    LET instr == blocks[b][k]
        pos == <<b, k>>
        freed1 == IF instr \in DOMAIN m.freeInstrs
                  THEN freed \cup {m.freeInstrs[instr]} ELSE freed
        uaf == IF freed1 # {}
               THEN checkUseAfterFree(instr, pos, m.allocations, freed1, m.storesTo)
               ELSE <<>>
        new == uaf \o checkReturn(instr, pos, m.allocations, m.storesTo)
                   \o checkGlobalStore(instr, pos, m.allocations, m.storesTo)
    IN  new \o SecondPassFrom(blocks, b, k + 1, freed1, m)

\* What the analysis of a function reports when nothing else is analysed.
AnalysedAlone(blocks) ==
  SecondPassFrom(blocks, 1, 1, {},
    FirstPassFrom(blocks, 1, 1,
      [arenas |-> {}, allocations |-> Empty, freeInstrs |-> Empty, storesTo |-> Empty]))

\* C32: function independence. The diagnostics of a function are those of
\* its own instruction stream analysed alone, whatever functions were
\* analysed before it and whatever follows; the region, allocation, store
\* and release maps are empty when the analysis of a function starts.
C32_FunctionIndependence ==
  /\ \A k \in 1..Len(results) :
       DiagsOfFunc(results[k].fi) = AnalysedAlone(fns[results[k].fi].Blocks)
  /\ (pc = "pass1" /\ bi = 1 /\ ii = 1) =>
       /\ arenas = {} /\ allocations = Empty
       /\ storesTo = Empty /\ freeInstrs = Empty

\* A function that allocates before, in block order, its region is created
\* reports nothing, analysed after a function that tracked the same
\* allocation and reported it and before one that reports again.
C32_Witness ==
  /\ pc = "end"
  /\ Len(results) = 3
  /\ fns[2].Blocks \in Reordered
  /\ DiagsOfFunc(1) # <<>> /\ DiagsOfFunc(2) = <<>> /\ DiagsOfFunc(3) # <<>>
  /\ "al1" \in DOMAIN results[1].allocations
  /\ results[2].allocations = Empty

====
